---- MODULE Spec2Model ----
(***************************************************************************)
(* Order lifecycle, pricing and assignment engine of the laundry backend.  *)
(* The model follows OrdersService (orders/orders.service.ts, kept in      *)
(* src/src/orders/orders.module.ts), the order status enum, the catalog    *)
(* price lookup of CatalogService and the role decorators of               *)
(* OrdersController.                                                       *)
(***************************************************************************)
EXTENDS Integers, Sequences, FiniteSets, TLC

\* ------------------------------------------------------------------ bounds
\* Orders the collection may hold.
MaxOrders == 2
\* Status-history entries written in one behaviour, over all orders (one by
\* each createOrder, one by each successful updateOrderStatus).
MaxWrites == 5
\* Largest quantity of an order line.
MaxQty == 2
\* Most lines of one create-order request.
MaxLines == 2
\* Orders in a collection handed to getOrderStats.
MaxStatOrders == 6
\* Orders in a collection handed to getDeliveryStats.
MaxCourierOrders == 3
\* Hours the clock may advance in one behaviour.
MaxClock == 2
\* Documents the pricing collection may hold.
MaxPricings == 6

\* --------------------------------------------------------------- constants
\* Fallback of configService.get("DEFAULT_DELIVERY_CHARGE", 60).
DEFAULT_DELIVERY_CHARGE == 60

\* ------------------------------------------------------------- OrderStatus
REQUESTED == "requested"
PICKED_UP == "picked_up"
IN_LAUNDRY == "in_laundry"
OUT_FOR_DELIVERY == "out_for_delivery"
DELIVERED == "delivered"
CANCELLED == "cancelled"

OrderStatus ==
  {REQUESTED, PICKED_UP, IN_LAUNDRY, OUT_FOR_DELIVERY, DELIVERED, CANCELLED}

\* The transition map with a delivered order still open to cancellation.
TRANSITIONS_CancelDelivered ==
  [s \in OrderStatus |->
     CASE s = REQUESTED -> <<PICKED_UP, CANCELLED>>
       [] s = PICKED_UP -> <<IN_LAUNDRY, CANCELLED>>
       [] s = IN_LAUNDRY -> <<OUT_FOR_DELIVERY>>
       [] s = OUT_FOR_DELIVERY -> <<DELIVERED>>
       [] s = DELIVERED -> <<CANCELLED>>
       [] s = CANCELLED -> <<>>]

\* The transition map with a cancelled order open to a new request.
TRANSITIONS_Reopen ==
  [s \in OrderStatus |->
     CASE s = REQUESTED -> <<PICKED_UP, CANCELLED>>
       [] s = PICKED_UP -> <<IN_LAUNDRY, CANCELLED>>
       [] s = IN_LAUNDRY -> <<OUT_FOR_DELIVERY>>
       [] s = OUT_FOR_DELIVERY -> <<DELIVERED>>
       [] s = DELIVERED -> <<>>
       [] s = CANCELLED -> <<REQUESTED>>]

\* The transition map with cancellation still open in the laundry.
TRANSITIONS_CancelInLaundry ==
  [s \in OrderStatus |->
     CASE s = REQUESTED -> <<PICKED_UP, CANCELLED>>
       [] s = PICKED_UP -> <<IN_LAUNDRY, CANCELLED>>
       [] s = IN_LAUNDRY -> <<OUT_FOR_DELIVERY, CANCELLED>>
       [] s = OUT_FOR_DELIVERY -> <<DELIVERED>>
       [] s = DELIVERED -> <<>>
       [] s = CANCELLED -> <<>>]

\* The transition map, each entry an array as in the source.
ORDER_STATUS_TRANSITIONS ==
  [s \in OrderStatus |->
     CASE s = REQUESTED -> <<PICKED_UP, CANCELLED>>
       [] s = PICKED_UP -> <<IN_LAUNDRY, CANCELLED>>
       [] s = IN_LAUNDRY -> <<OUT_FOR_DELIVERY>>
       [] s = OUT_FOR_DELIVERY -> <<DELIVERED>>
       [] s = DELIVERED -> <<>>
       [] s = CANCELLED -> <<>>]

\* Array.prototype.includes
includes(arr, x) == \E i \in 1..Len(arr) : arr[i] = x

\* The lookup with its arguments swapped:
\* ORDER_STATUS_TRANSITIONS[newStatus]?.includes(currentStatus) ?? false
isValidStatusTransition_Swapped(currentStatus, newStatus) ==
  IF newStatus \in DOMAIN ORDER_STATUS_TRANSITIONS
    THEN includes(ORDER_STATUS_TRANSITIONS[newStatus], currentStatus)
    ELSE FALSE

\* ORDER_STATUS_TRANSITIONS[currentStatus]?.includes(newStatus) ?? false
isValidStatusTransition(currentStatus, newStatus) ==
  IF currentStatus \in DOMAIN ORDER_STATUS_TRANSITIONS
    THEN includes(ORDER_STATUS_TRANSITIONS[currentStatus], newStatus)
    ELSE FALSE

\* ---------------------------------------------------------------- UserRole
CUSTOMER == "customer"
DELIVERY == "delivery"
ADMIN == "admin"
UserRole == {CUSTOMER, DELIVERY, ADMIN}

\* Identifiers of the users collection, and one id no user has.
UserIds == {"u1", "u2", "u3"}
GhostUser == "u9"
\* An absent reference or optional string (undefined).
Undefined == "undefined"
\* An optional value of another type: absent, or present with a value.
None == <<>>
Some(x) == <<x>>

\* ----------------------------------------------------------------- catalog
WASHING == "washing"
IRONING == "ironing"
ServiceType == {WASHING, IRONING}
MEN == "men"
WOMEN == "women"
ClothingCategory == {MEN, WOMEN}

\* Clothing items of the seeded catalog (name.en), and an id of no item.
ClothingItemName == [shirt |-> "Shirt", pant |-> "Pant"]
ClothingItemIds == DOMAIN ClothingItemName
GhostItem == "ghost"

PricingKeys == ClothingItemIds \X ServiceType \X ClothingCategory
\* A document of the pricing collection.
Pricing(clothingItem, serviceType, category, price, isActive) ==
  [clothingItem |-> clothingItem, serviceType |-> serviceType,
   category |-> category, price |-> price, isActive |-> isActive]

\* seedCatalogData: a washing and an ironing price per item, for the item's
\* own category only (both seeded items are men's).
SeedPricing ==
  <<Pricing("shirt", WASHING, MEN, 40, TRUE),
    Pricing("shirt", IRONING, MEN, 25, TRUE),
    Pricing("pant", WASHING, MEN, 50, TRUE),
    Pricing("pant", IRONING, MEN, 30, TRUE)>>

VARIABLES
  users,        \* users collection: id -> [role, isVerified, otpCode, otpExpiry]
  clothingItems, \* clothing-item collection: id -> name.en
  pricings,     \* pricing collection: its documents, in insertion order
  deliveryChargeConfig, \* DEFAULT_DELIVERY_CHARGE of the environment
  orders,       \* orders collection, in insertion order; the id is the index
  last,         \* the request being answered: its inputs, its outcome and the
                \* orders collection it found; NoRequest between requests
  clock,        \* the time new Date() and the timestamps plugin read, in hours
  pending       \* requests served side by side: what each has read and not
                \* yet written

vars == <<users, clothingItems, pricings, deliveryChargeConfig, orders, last,
          clock, pending>>

\* ------------------------------------------------------ CatalogService
\* What getItemPrice signals by throwing NotFoundException.
NotPriced == -1

\* The positions of the documents a filter on the three key fields matches,
\* with or without isActive: true.
matching(docs, key, activeOnly) ==
  {i \in 1..Len(docs) :
     /\ <<docs[i].clothingItem, docs[i].serviceType, docs[i].category>> = key
     /\ activeOnly => docs[i].isActive}

\* findOne: the first matching document in the collection's natural order.
firstOf(S) == CHOOSE i \in S : \A j \in S : i <= j

\* The lookup without its isActive filter:
\* findOne({clothingItem, serviceType, category})
getItemPrice_AnyEntry(clothingItemId, serviceType, category) ==
  LET found == matching(pricings, <<clothingItemId, serviceType, category>>,
                        FALSE)
  IN IF found # {} THEN pricings[firstOf(found)].price ELSE NotPriced

\* findOne({clothingItem, serviceType, category, isActive: true})
getItemPrice(clothingItemId, serviceType, category) ==
  LET found == matching(pricings, <<clothingItemId, serviceType, category>>,
                        TRUE)
  IN IF found # {} THEN pricings[firstOf(found)].price ELSE NotPriced

\* getClothingItemById: the item exists
clothingItemExists(id) == id \in ClothingItemIds

\* The fields upsertPricing writes: {price, isActive: dto.isActive ?? true}
updated(doc, dto) ==
  [doc EXCEPT !.price = dto.price,
              !.isActive = IF dto.isActive = None THEN TRUE
                           ELSE dto.isActive[1]]

\* The document an upsert inserts: the filter's fields and the update's.
inserted(dto) ==
  Pricing(dto.clothingItemId, dto.serviceType, dto.category, dto.price,
          IF dto.isActive = None THEN TRUE ELSE dto.isActive[1])

\* findOneAndUpdate(key, {price, isActive: dto.isActive ?? true}, {upsert})
\* as one step: the first match updated, or a document inserted.
upsertedPricing(dto) ==
  LET found == matching(pricings,
                        <<dto.clothingItemId, dto.serviceType, dto.category>>,
                        FALSE)
  IN IF found # {}
       THEN [pricings EXCEPT ![firstOf(found)] = updated(@, dto)]
       ELSE Append(pricings, inserted(dto))

\* The collection without the unique index: every insert is accepted.
uniqueIndex_NotUnique(docs, doc) == TRUE

\* PricingSchema.index({clothingItem, serviceType, category}, {unique: true}):
\* the insert of a document is accepted when no stored document has its key.
uniqueIndex(docs, doc) ==
  matching(docs, <<doc.clothingItem, doc.serviceType, doc.category>>, FALSE)
    = {}

\* calculateOrderTotal, the inner loop over item.services from service k on:
\* a service whose getItemPrice throws is skipped (catch { continue }).
RECURSIVE servicesPricingFrom(_, _, _)
servicesPricingFrom(item, k, servicesPricing) ==
  IF k > Len(item.services) THEN servicesPricing
  ELSE LET price == getItemPrice(item.clothingItemId, item.services[k],
                                 item.category)
       IN servicesPricingFrom(
            item, k + 1,
            IF price = NotPriced THEN servicesPricing
            ELSE Append(servicesPricing,
                        [type |-> item.services[k], price |-> price]))

\* itemSubtotal += price * item.quantity, over the services priced.
RECURSIVE itemSubtotalOf(_, _, _)
itemSubtotalOf(servicesPricing, quantity, k) ==
  IF k > Len(servicesPricing) THEN 0
  ELSE servicesPricing[k].price * quantity
         + itemSubtotalOf(servicesPricing, quantity, k + 1)

\* calculateOrderTotal: the outer loop over items from item i on.
RECURSIVE calculateOrderTotalFrom(_, _, _, _)
calculateOrderTotalFrom(items, i, itemsTotal, breakdown) ==
  IF i > Len(items) THEN [itemsTotal |-> itemsTotal, breakdown |-> breakdown]
  ELSE LET servicesPricing == servicesPricingFrom(items[i], 1, <<>>)
           itemSubtotal ==
             itemSubtotalOf(servicesPricing, items[i].quantity, 1)
       IN calculateOrderTotalFrom(
            items, i + 1, itemsTotal + itemSubtotal,
            Append(breakdown,
                   [clothingItemId |-> items[i].clothingItemId,
                    services |-> servicesPricing,
                    quantity |-> items[i].quantity,
                    subtotal |-> itemSubtotal]))

calculateOrderTotal(items) == calculateOrderTotalFrom(items, 1, 0, <<>>)

\* ------------------------------------------------ OrdersService.createOrder
\* The inner loop over item.services: the unit price, or NotPriced as soon as
\* one getItemPrice throws.
RECURSIVE unitPriceFrom(_, _, _)
unitPriceFrom(item, k, unitPrice) ==
  IF k > Len(item.services) THEN unitPrice
  ELSE LET price == getItemPrice(item.clothingItemId, item.services[k],
                                 item.category)
       IN IF price = NotPriced THEN NotPriced
          ELSE unitPriceFrom(item, k + 1, unitPrice + price)

\* One priced line as pushed to itemsWithPricing.
pricedItem(item, unitPrice) ==
  [clothingItem |-> item.clothingItemId,
   clothingItemName |-> clothingItems[item.clothingItemId],
   category |-> item.category,
   services |-> item.services,
   quantity |-> item.quantity,
   unitPrice |-> unitPrice,
   subtotal |-> unitPrice * item.quantity]

\* The outer loop over dto.items, from item i on: stops at the first item that
\* does not exist (NotFound) or has an unpriced service (BadRequest).
RECURSIVE priceItems(_, _, _, _)
priceItems(items, i, itemsWithPricing, itemsTotal) ==
  IF i > Len(items)
    THEN [error |-> "none", items |-> itemsWithPricing, itemsTotal |-> itemsTotal]
  ELSE IF ~clothingItemExists(items[i].clothingItemId)
    THEN [error |-> "NotFound", items |-> <<>>, itemsTotal |-> 0]
  ELSE LET unitPrice == unitPriceFrom(items[i], 1, 0) IN
    IF unitPrice = NotPriced
      THEN [error |-> "BadRequest", items |-> <<>>, itemsTotal |-> 0]
      ELSE priceItems(items, i + 1,
                      Append(itemsWithPricing, pricedItem(items[i], unitPrice)),
                      itemsTotal + unitPrice * items[i].quantity)

\* Number(configService.get("DEFAULT_DELIVERY_CHARGE", 60))
deliveryChargeOf(config) ==
  IF config = None THEN DEFAULT_DELIVERY_CHARGE ELSE config[1]

\* The document with the delivery charge counted once per line.
newOrder_ChargePerLine(userId, priced, deliveryCharge) ==
  [customer |-> userId,
   deliveryPerson |-> Undefined,
   items |-> priced.items,
   pricing |-> [itemsTotal |-> priced.itemsTotal,
                deliveryCharge |-> deliveryCharge,
                grandTotal |-> priced.itemsTotal
                                 + deliveryCharge * Len(priced.items)],
   status |-> REQUESTED,
   statusHistory |-> <<[status |-> REQUESTED, timestamp |-> clock,
                        note |-> "Order placed", updatedBy |-> userId]>>,
   createdAt |-> clock,
   updatedAt |-> clock]

\* The document with the acting user left out of the first history entry.
newOrder_NoActor(userId, priced, deliveryCharge) ==
  [customer |-> userId,
   deliveryPerson |-> Undefined,
   items |-> priced.items,
   pricing |-> [itemsTotal |-> priced.itemsTotal,
                deliveryCharge |-> deliveryCharge,
                grandTotal |-> priced.itemsTotal + deliveryCharge],
   status |-> REQUESTED,
   statusHistory |-> <<[status |-> REQUESTED, timestamp |-> clock,
                        note |-> "Order placed", updatedBy |-> Undefined]>>,
   createdAt |-> clock,
   updatedAt |-> clock]

\* The document createOrder builds from the priced items.
newOrder(userId, priced, deliveryCharge) ==
  [customer |-> userId,
   deliveryPerson |-> Undefined,
   items |-> priced.items,
   pricing |-> [itemsTotal |-> priced.itemsTotal,
                deliveryCharge |-> deliveryCharge,
                grandTotal |-> priced.itemsTotal + deliveryCharge],
   status |-> REQUESTED,
   statusHistory |-> <<[status |-> REQUESTED, timestamp |-> clock,
                        note |-> "Order placed", updatedBy |-> userId]>>,
   createdAt |-> clock,
   updatedAt |-> clock]

\* ------------------------------------------------------------ access rules
\* RolesGuard over the route's @Roles(...) metadata: a route with roles is
\* open to a user holding one of them.
RolesGuard(userId, roles) == roles = {} \/ users[userId].role \in roles

\* @Roles of the three mutating order routes.
CreateOrderRoles == {CUSTOMER}
UpdateOrderStatusRoles == {DELIVERY, ADMIN}
AssignDeliveryPersonRoles == {ADMIN}
GetOrderStatsRoles == {ADMIN}
GetDeliveryStatsRoles == {DELIVERY}
\* GET /orders/:id carries no @Roles.
GetOrderByIdRoles == {}

\* JwtStrategy.validate: the caller is a stored, verified user.
Authenticated(userId) == userId \in DOMAIN users /\ users[userId].isVerified

\* findById on the orders collection.
orderExists(orderId) == orderId \in 1..Len(orders)

\* --------------------------------------- OrdersService.updateOrderStatus
\* The checks without the transition check.
updateOrderStatusOutcome_NoTransitionCheck(orderId, dto, userId) ==
  IF ~orderExists(orderId) THEN "NotFound"
  ELSE LET isDelivery == orders[orderId].deliveryPerson = userId
           isAdmin == users[userId].role = ADMIN
       IN IF ~isDelivery /\ ~isAdmin THEN "Forbidden" ELSE "ok"

\* The checks without the permission check.
updateOrderStatusOutcome_NoPermissionCheck(orderId, dto, userId) ==
  IF ~orderExists(orderId) THEN "NotFound"
  ELSE IF ~isValidStatusTransition(orders[orderId].status, dto.status)
    THEN "BadRequest"
  ELSE "ok"

\* The outcome of the checks, in the order the service makes them.
updateOrderStatusOutcome(orderId, dto, userId) ==
  IF ~orderExists(orderId) THEN "NotFound"
  ELSE IF ~isValidStatusTransition(orders[orderId].status, dto.status)
    THEN "BadRequest"
  ELSE LET isDelivery == orders[orderId].deliveryPerson = userId
           isAdmin == users[userId].role = ADMIN
       IN IF ~isDelivery /\ ~isAdmin THEN "Forbidden" ELSE "ok"

\* The note taken as given: dto.note
noteOf_AsGiven(dto) == dto.note

\* dto.note || ""
noteOf(dto) == IF dto.note = Undefined THEN "" ELSE dto.note

\* The status set without the push to statusHistory.
withStatus_NoPush(order, dto, userId) ==
  [order EXCEPT !.status = dto.status, !.updatedAt = clock]

\* The new entry written over the last one instead of pushed.
withStatus_Overwrite(order, dto, userId) ==
  [order EXCEPT
     !.status = dto.status,
     !.statusHistory = [@ EXCEPT ![Len(@)] =
                          [status |-> dto.status, timestamp |-> clock,
                           note |-> noteOf(dto), updatedBy |-> userId]],
     !.updatedAt = clock]

\* order.status = dto.status; order.statusHistory.push({...}); the save
\* stamps updatedAt (timestamps: true).
withStatus(order, dto, userId) ==
  [order EXCEPT
     !.status = dto.status,
     !.statusHistory = Append(@, [status |-> dto.status, timestamp |-> clock,
                                  note |-> noteOf(dto), updatedBy |-> userId]),
     !.updatedAt = clock]

\* ------------------------------------------- OrdersService.getOrderById
\* The access check with every delivery person let in.
getOrderByIdOutcome_AnyDelivery(orderId, userId) ==
  IF ~orderExists(orderId) THEN "NotFound"
  ELSE LET isCustomer == orders[orderId].customer = userId
           isDelivery == users[userId].role = DELIVERY
           isAdmin == users[userId].role = ADMIN
       IN IF ~isCustomer /\ ~isDelivery /\ ~isAdmin THEN "Forbidden" ELSE "ok"

\* findById, NotFound, then the access check.
getOrderByIdOutcome(orderId, userId) ==
  IF ~orderExists(orderId) THEN "NotFound"
  ELSE LET isCustomer == orders[orderId].customer = userId
           isDelivery == orders[orderId].deliveryPerson = userId
           isAdmin == users[userId].role = ADMIN
       IN IF ~isCustomer /\ ~isDelivery /\ ~isAdmin THEN "Forbidden" ELSE "ok"

\* ------------------------------------------ OrdersService.getOrderStats
\* $group by status with $sum 1: a count for every status some order has.
groupByStatus(os) ==
  [s \in {os[i].status : i \in 1..Len(os)} |->
     Cardinality({i \in 1..Len(os) : os[i].status = s})]

\* statusCounts[status] || 0
countOrZero(statusCounts, status) ==
  IF status \in DOMAIN statusCounts THEN statusCounts[status] ELSE 0

\* Object.values(statusCounts).reduce((a, b) => a + b, 0)
RECURSIVE sumValues(_, _)
sumValues(statusCounts, keys) ==
  IF keys = {} THEN 0
  ELSE LET k == CHOOSE x \in keys : TRUE
       IN statusCounts[k] + sumValues(statusCounts, keys \ {k})

\* The statistics with OUT_FOR_DELIVERY left out of the orders in progress.
getOrderStats_NoOutForDelivery(os) ==
  LET statusCounts == groupByStatus(os) IN
  [totalOrders |-> sumValues(statusCounts, DOMAIN statusCounts),
   pendingOrders |-> countOrZero(statusCounts, REQUESTED),
   inProgressOrders |-> countOrZero(statusCounts, PICKED_UP)
                          + countOrZero(statusCounts, IN_LAUNDRY),
   completedOrders |-> countOrZero(statusCounts, DELIVERED),
   cancelledOrders |-> countOrZero(statusCounts, CANCELLED)]

\* The status counts of the dashboard (todayOrders and todayRevenue, which
\* depend on the clock, are left out).
getOrderStats(os) ==
  LET statusCounts == groupByStatus(os) IN
  [totalOrders |-> sumValues(statusCounts, DOMAIN statusCounts),
   pendingOrders |-> countOrZero(statusCounts, REQUESTED),
   inProgressOrders |-> countOrZero(statusCounts, PICKED_UP)
                          + countOrZero(statusCounts, IN_LAUNDRY)
                          + countOrZero(statusCounts, OUT_FOR_DELIVERY),
   completedOrders |-> countOrZero(statusCounts, DELIVERED),
   cancelledOrders |-> countOrZero(statusCounts, CANCELLED)]

\* ------------------------------------------- OrdersService order lists
\* The lists are modelled by the ids of the orders they hold (their sort by
\* createdAt is left out).
\* The list without its status filter: find({deliveryPerson: {$exists: false}})
getUnassignedOrders_AnyStatus(os) ==
  {i \in 1..Len(os) : os[i].deliveryPerson = Undefined}

\* find({deliveryPerson: {$exists: false}, status: REQUESTED})
getUnassignedOrders(os) ==
  {i \in 1..Len(os) :
     os[i].deliveryPerson = Undefined /\ os[i].status = REQUESTED}

\* find({deliveryPerson: userId, status: {$nin: [DELIVERED, CANCELLED]}})
getDeliveryOrders(os, userId) ==
  {i \in 1..Len(os) :
     os[i].deliveryPerson = userId /\ os[i].status \notin {DELIVERED, CANCELLED}}

\* find({deliveryPerson: userId, status: {$in: [DELIVERED, CANCELLED]}})
getDeliveryHistory(os, userId) ==
  {i \in 1..Len(os) :
     os[i].deliveryPerson = userId /\ os[i].status \in {DELIVERED, CANCELLED}}

\* ---------------------------------------- OrdersService.getDeliveryStats
\* $match: {deliveryPerson: deliveryPersonId}
matchDeliveryPerson(os, userId) ==
  SelectSeq(os, LAMBDA o : o.deliveryPerson = userId)

\* $match: {deliveryPerson: deliveryPersonId, status: DELIVERED}
matchDelivered(os, userId) ==
  SelectSeq(os, LAMBDA o : o.deliveryPerson = userId /\ o.status = DELIVERED)

\* $group: {_id: null, total: {$sum: ...}}: the sum of the values taken
\* from the matched orders, from the i-th on.
RECURSIVE sumOver(_, _)
sumOver(values, i) ==
  IF i > Len(values) THEN 0 ELSE values[i] + sumOver(values, i + 1)

\* Math.round(x * 100) for the quotient x = num / den >= 0: the value in
\* hundredths, halves rounded up.
roundHundredths(num, den) == (200 * num + den) \div (2 * den)

\* The statistics with the revenue summed over all the orders of the delivery
\* person, delivered or not.
getDeliveryStats_RevenueOfAll(os, userId) ==
  LET grandTotals(xs) == [k \in 1..Len(xs) |-> xs[k].pricing.grandTotal]
      deliveryTimes(xs) ==
        [k \in 1..Len(xs) |-> xs[k].updatedAt - xs[k].createdAt]
      statusCounts == groupByStatus(matchDeliveryPerson(os, userId))
      delivered == matchDelivered(os, userId)
      mine == matchDeliveryPerson(os, userId)
  IN [totalDeliveries |-> sumValues(statusCounts, DOMAIN statusCounts),
      completedDeliveries |-> countOrZero(statusCounts, DELIVERED),
      cancelledDeliveries |-> countOrZero(statusCounts, CANCELLED),
      totalRevenue |-> IF Len(mine) = 0 THEN 0
                       ELSE sumOver(grandTotals(mine), 1),
      averageDeliveryTime |->
        IF Len(delivered) = 0 THEN 0
        ELSE roundHundredths(sumOver(deliveryTimes(delivered), 1),
                             Len(delivered))]

\* The statistics of a delivery person. averageDeliveryTime is in hundredths
\* of an hour (the service rounds to two decimals); todayDeliveries,
\* thisWeekDeliveries and thisMonthDeliveries, which depend on the calendar,
\* are left out.
getDeliveryStats(os, userId) ==
  LET grandTotals(xs) == [k \in 1..Len(xs) |-> xs[k].pricing.grandTotal]
      deliveryTimes(xs) ==
        [k \in 1..Len(xs) |-> xs[k].updatedAt - xs[k].createdAt]
      statusCounts == groupByStatus(matchDeliveryPerson(os, userId))
      delivered == matchDelivered(os, userId)
  IN [totalDeliveries |-> sumValues(statusCounts, DOMAIN statusCounts),
      completedDeliveries |-> countOrZero(statusCounts, DELIVERED),
      cancelledDeliveries |-> countOrZero(statusCounts, CANCELLED),
      \* revenueStats[0]?.totalRevenue || 0
      totalRevenue |-> IF Len(delivered) = 0 THEN 0
                       ELSE sumOver(grandTotals(delivered), 1),
      \* Math.round((avgTimeStats[0]?.avgTime || 0) * 100) / 100
      averageDeliveryTime |->
        IF Len(delivered) = 0 THEN 0
        ELSE roundHundredths(sumOver(deliveryTimes(delivered), 1),
                             Len(delivered))]

\* ------------------------------------------------------ OTP-based login
\* AuthService.generateOtp: the fixed development code, or any six digits in
\* production (one other code stands for them).
generateOtp == {"787800", "123456"}

\* UsersService.saveOtp: an upsert by phone number. The code and its expiry
\* are set; a user created here is an unverified customer.
saveOtp(phone, otpCode, otpExpiry) ==
  IF phone \in DOMAIN users
    THEN [users EXCEPT ![phone].otpCode = otpCode,
                       ![phone].otpExpiry = otpExpiry]
    ELSE [u \in DOMAIN users \cup {phone} |->
            IF u = phone
              THEN [role |-> CUSTOMER, isVerified |-> FALSE,
                    otpCode |-> otpCode, otpExpiry |-> otpExpiry]
              ELSE users[u]]

\* The expiry is minutes after the request, the clock counts hours: a code
\* saved at one hour has expired at the next.
expired(user) == user.otpExpiry # None /\ clock > user.otpExpiry[1]

\* UsersService.verifyOtp and the exception AuthService.verifyOtp makes of
\* its null.
verifyOtpOutcome(dto) ==
  IF dto.userId \notin DOMAIN users THEN "Unauthorized"
  ELSE IF users[dto.userId].otpCode # dto.otpCode THEN "Unauthorized"
  ELSE IF expired(users[dto.userId]) THEN "Unauthorized"
  ELSE "ok"

verified(user) ==
  [user EXCEPT !.otpCode = "", !.otpExpiry = None, !.isVerified = TRUE]

\* ------------------------------------ OrdersService.assignDeliveryPerson
\* The checks without the role check on the target user.
assignDeliveryPersonOutcome_NoRoleCheck(orderId, dto) ==
  IF ~orderExists(orderId) THEN "NotFound"
  ELSE IF dto.deliveryPersonId \notin DOMAIN users THEN "NotFound"
  ELSE "ok"

\* The checks with assignment closed once the order is DELIVERED or
\* CANCELLED.
assignDeliveryPersonOutcome_OpenOrdersOnly(orderId, dto) ==
  IF ~orderExists(orderId) THEN "NotFound"
  ELSE IF dto.deliveryPersonId \notin DOMAIN users THEN "NotFound"
  ELSE IF users[dto.deliveryPersonId].role # DELIVERY THEN "BadRequest"
  ELSE IF orders[orderId].status \in {DELIVERED, CANCELLED} THEN "BadRequest"
  ELSE "ok"

assignDeliveryPersonOutcome(orderId, dto) ==
  IF ~orderExists(orderId) THEN "NotFound"
  ELSE IF dto.deliveryPersonId \notin DOMAIN users THEN "NotFound"
  ELSE IF users[dto.deliveryPersonId].role # DELIVERY THEN "BadRequest"
  ELSE "ok"

\* order.deliveryPerson = new ObjectId(dto.deliveryPersonId); order.save():
\* a save that modifies the document stamps updatedAt, a save that finds
\* nothing modified writes nothing.
assigned(order, dto) ==
  IF order.deliveryPerson = dto.deliveryPersonId THEN order
  ELSE [order EXCEPT !.deliveryPerson = dto.deliveryPersonId,
                     !.updatedAt = clock]

\* ------------------------------------------------------- Document.save
\* The schema with optimisticConcurrency: a save is refused when the stored
\* document is no longer the one read.
saveOutcome_VersionChecked(stored, read) ==
  IF stored # read THEN "VersionError" ELSE "ok"

\* The Order schema sets no optimisticConcurrency, and setting a path or
\* pushing to an array puts no version condition on the update: the save of a
\* stored document succeeds whatever was written since it was read.
saveOutcome(stored, read) == "ok"

\* The save as a replacement of the stored document by the one in memory.
save_WholeDocument(stored, read, doc) == doc

\* order.save(): the update sent carries the paths modified since the read
\* ($set of status, deliveryPerson and updatedAt, $push of the new
\* statusHistory entries) and leaves the other stored paths as they are.
save(stored, read, doc) ==
  [stored EXCEPT
     !.status = IF doc.status # read.status THEN doc.status ELSE @,
     !.deliveryPerson = IF doc.deliveryPerson # read.deliveryPerson
                          THEN doc.deliveryPerson ELSE @,
     !.statusHistory = @ \o SubSeq(doc.statusHistory,
                                   Len(read.statusHistory) + 1,
                                   Len(doc.statusHistory)),
     !.updatedAt = IF doc # read THEN doc.updatedAt ELSE @]

\* ------------------------------------------------------------------ inputs
\* Order ids a request may name: those the collection can hold and one more,
\* which never exists.
OrderIdInputs == 1..(MaxOrders + 1)

OrderItemDto(clothingItemId, category, services, quantity) ==
  [clothingItemId |-> clothingItemId, category |-> category,
   services |-> services, quantity |-> quantity]

\* The line of the seeded men's shirt, washed and ironed.
ShirtLine == OrderItemDto("shirt", MEN, <<WASHING, IRONING>>, MaxQty)
\* The same shirt under the women's category, which the seed does not price.
WomenLine == OrderItemDto("shirt", WOMEN, <<WASHING>>, 1)
\* A line naming no clothing item of the catalog.
GhostLine == OrderItemDto(GhostItem, MEN, <<WASHING>>, 1)

\* The line of the seeded men's pants, washed.
PantLine == OrderItemDto("pant", MEN, <<WASHING>>, 1)

\* Lines of a create-order request.
OrderItemDtos == {ShirtLine, WomenLine, GhostLine}

\* CreateOrderDto.items: any list of at most MaxLines lines.
CreateOrderDtos ==
  UNION {[1..n -> OrderItemDtos] : n \in 0..MaxLines}

\* The create-order requests of the lifecycle specification.
LifecycleDtos == {<<ShirtLine>>, <<WomenLine>>, <<GhostLine>>}

\* UpdateOrderStatusDto
UpdateOrderStatusDtos ==
  [status : OrderStatus, note : {Undefined, "left at the door"}]

\* UpdateOrderStatusDto without a note, for the specification with changing
\* roles.
BareStatusDtos == [status : OrderStatus, note : {Undefined}]

\* CompleteSignupDto: the user the phone number belongs to and the optional
\* role; here one user, moving between delivery person and customer.
CompleteSignupDtos ==
  [userId : {"u2"}, role : {CUSTOMER, DELIVERY, Undefined}]

\* CompleteSignupDto of the customer taking the delivery role.
NewCourierDtos == [userId : {"u1"}, role : {DELIVERY}]

\* AssignDeliveryDto naming the delivery user or the customer.
TwoCourierDtos == [deliveryPersonId : {"u1", "u2"}]

\* AssignDeliveryDto
AssignDeliveryDtos == [deliveryPersonId : UserIds \cup {GhostUser}]

\* CreatePricingDto: a washing price for the shirt in the women's category,
\* active (isActive left out) or not.
CreatePricingDtos ==
  [clothingItemId : {"shirt"}, serviceType : {WASHING}, category : {WOMEN},
   price : {45}, isActive : {None, Some(FALSE)}]

\* DEFAULT_DELIVERY_CHARGE of the environment: unset, or a number.
DeliveryChargeConfigs == {None, Some(100)}

\* The callers of the requests served side by side: the delivery user and
\* the administrator.
RaceCallers == {"u2", "u3"}

\* UpdateOrderStatusDto of the requests served side by side: the statuses
\* open to an order that is requested or picked up, without a note.
RaceStatusDtos ==
  [status : {PICKED_UP, IN_LAUNDRY, CANCELLED}, note : {Undefined}]

\* AssignDeliveryDto naming the delivery user.
CourierDtos == [deliveryPersonId : {"u2"}]

\* The phone numbers of the login flow: the delivery person's, and one that
\* has no user yet.
SignupPhones == {"u2", "u3"}
VerifyOtpDtos == [userId : SignupPhones, otpCode : generateOtp]
\* CompleteSignupDto asking for the administrator role, or for none.
AdminSignupDtos == [userId : SignupPhones, role : {ADMIN, Undefined}]
\* UpdateStatusDto taking a requested order on, or cancelling it.
FirstStatusDtos == [status : {PICKED_UP, CANCELLED}, note : {Undefined}]

\* CreatePricingDto: a new washing price for the men's shirt.
RepricingDtos ==
  [clothingItemId : {"shirt"}, serviceType : {WASHING}, category : {MEN},
   price : {55}, isActive : {None}]

\* PUT /catalog/items/:id with Partial<CreateClothingItemDto>: a new name
\* for the shirt, or for an id of no item.
UpdateClothingItemDtos == [id : {"shirt", GhostItem}, name : {"Formal Shirt"}]

\* The requests that may be served side by side, and what one of them holds
\* between its steps: the document it read and, once done, its outcome.
Slots == {"a", "b"}
Free ==
  [op |-> "none", phase |-> "free", caller |-> Undefined, orderId |-> 0,
   dto |-> <<>>, read |-> None, result |-> "none"]
Pending(op, phase, caller, orderId, dto, read, result) ==
  [op |-> op, phase |-> phase, caller |-> caller, orderId |-> orderId,
   dto |-> dto, read |-> read, result |-> result]

\* No request is being served side by side with another.
NoPending == [p \in Slots |-> Free]

\* The document a pending request holds in memory when it saves: the one it
\* read, with the handler's assignments made.
inMemory(req) ==
  IF req.op = "updateOrderStatus"
    THEN withStatus(req.read[1], req.dto, req.caller)
    ELSE assigned(req.read[1], req.dto)

\* CreatePricingDto: a washing price for the shirt, in the men's category
\* (priced by the seed) or the women's (not priced).
RacingPricingDtos ==
  [clothingItemId : {"shirt"}, serviceType : {WASHING},
   category : {MEN, WOMEN}, price : {45, 55}, isActive : {None}]

\* `last` between requests.
NoRequest ==
  [op |-> "none", result |-> "none", caller |-> Undefined, orderId |-> 0,
   dto |-> <<>>, before |-> <<>>, body |-> None]

\* A request and its answer: the outcome and, for a read, the data returned.
Reply(op, result, caller, orderId, dto, body) ==
  [op |-> op, result |-> result, caller |-> caller, orderId |-> orderId,
   dto |-> dto, before |-> orders, body |-> body]

Request(op, result, caller, orderId, dto) ==
  Reply(op, result, caller, orderId, dto, None)

\* Status-history entries written so far.
RECURSIVE entriesFrom(_, _)
entriesFrom(os, i) ==
  IF i > Len(os) THEN 0 ELSE Len(os[i].statusHistory) + entriesFrom(os, i + 1)

TotalEntries == entriesFrom(orders, 1)

\* -------------------------------------------------------------------- Init
\* Three verified users: a customer, a delivery person and an administrator.
InitUsers ==
  [u \in UserIds |->
     [role |-> CASE u = "u1" -> CUSTOMER
                 [] u = "u2" -> DELIVERY
                 [] u = "u3" -> ADMIN,
      isVerified |-> TRUE, otpCode |-> "", otpExpiry |-> None]]

\* An empty orders collection, the seeded catalog, no delivery charge set.
Init ==
  /\ users = InitUsers
  /\ clothingItems = ClothingItemName
  /\ pricings = SeedPricing
  /\ deliveryChargeConfig = None
  /\ orders = <<>>
  /\ last = NoRequest
  /\ clock = 0
  /\ pending = NoPending

\* The same, under either delivery-charge setting.
InitPricing ==
  /\ users = InitUsers
  /\ clothingItems = ClothingItemName
  /\ pricings = SeedPricing
  /\ deliveryChargeConfig \in DeliveryChargeConfigs
  /\ orders = <<>>
  /\ last = NoRequest
  /\ clock = 0
  /\ pending = NoPending

\* The statuses an order passes on its way to a status, after REQUESTED.
PathTo(status) ==
  CASE status = REQUESTED -> <<>>
    [] status = PICKED_UP -> <<PICKED_UP>>
    [] status = IN_LAUNDRY -> <<PICKED_UP, IN_LAUNDRY>>
    [] status = OUT_FOR_DELIVERY -> <<PICKED_UP, IN_LAUNDRY, OUT_FOR_DELIVERY>>
    [] status = DELIVERED ->
         <<PICKED_UP, IN_LAUNDRY, OUT_FOR_DELIVERY, DELIVERED>>
    [] status = CANCELLED -> <<CANCELLED>>

\* An order along a path: each status set by an administrator's
\* updateOrderStatus.
RECURSIVE moved(_, _, _)
moved(order, path, k) ==
  IF k > Len(path) THEN order
  ELSE moved(withStatus(order, [status |-> path[k], note |-> Undefined], "u3"),
             path, k + 1)

\* An order the customer placed for one shirt line, now in a status.
orderIn(status) ==
  moved(newOrder("u1", priceItems(<<ShirtLine>>, 1, <<>>, 0),
                 deliveryChargeOf(None)),
        PathTo(status), 1)

\* The customer has placed one order.
InitPlaced ==
  /\ users = InitUsers
  /\ clothingItems = ClothingItemName
  /\ pricings = SeedPricing
  /\ deliveryChargeConfig = None
  /\ clock = 0
  /\ orders = <<orderIn(REQUESTED)>>
  /\ last = NoRequest
  /\ pending = NoPending

\* The statuses of the orders of a collection of up to MaxStatOrders orders:
\* every combination of counts, the orders listed from the least to the most
\* advanced (the statistics count orders and do not read their positions).
StatusLists ==
  {ss \in UNION {[1..n -> OrderStatus] : n \in 0..MaxStatOrders} :
     \A i \in 1..(Len(ss) - 1) : Len(PathTo(ss[i])) <= Len(PathTo(ss[i + 1]))}

\* The seeded catalog and an orders collection grown by earlier requests.
InitStats ==
  /\ users = InitUsers
  /\ clothingItems = ClothingItemName
  /\ pricings = SeedPricing
  /\ deliveryChargeConfig = None
  /\ clock = 0
  /\ \E ss \in StatusLists : orders = [i \in 1..Len(ss) |-> orderIn(ss[i])]
  /\ last = NoRequest
  /\ pending = NoPending

\* A customer and a delivery person are registered, no administrator is; the
\* customer has placed one order.
InitNoAdmin ==
  /\ users = [u \in {"u1", "u2"} |-> InitUsers[u]]
  /\ clothingItems = ClothingItemName
  /\ pricings = SeedPricing
  /\ deliveryChargeConfig = None
  /\ clock = 0
  /\ orders = <<orderIn(REQUESTED)>>
  /\ last = NoRequest
  /\ pending = NoPending

\* The users once the customer has taken the delivery role as well (the
\* signup flow lets a user change role; the orders they placed stay theirs).
CourierUsers == [InitUsers EXCEPT !["u1"].role = DELIVERY]

\* What the orders of a delivery person's statistics differ in: who delivers
\* them, the status they are in, and the line ordered together with the hours
\* from the order's creation to its last write.
Couriers == <<Undefined, "u1", "u2">>
CourierStatuses == <<IN_LAUNDRY, DELIVERED, CANCELLED>>
CourierVariants ==
  <<[line |-> ShirtLine, hours |-> 1], [line |-> PantLine, hours |-> 3]>>

CourierKinds ==
  0..(Len(Couriers) * Len(CourierStatuses) * Len(CourierVariants) - 1)
courierOf(k) == Couriers[(k % Len(Couriers)) + 1]
statusOf(k) ==
  CourierStatuses[((k \div Len(Couriers)) % Len(CourierStatuses)) + 1]
variantOf(k) ==
  CourierVariants[(k \div (Len(Couriers) * Len(CourierStatuses))) + 1]

\* An order placed some hours before now.
placedEarlier(order, hours) ==
  [order EXCEPT !.createdAt = @ - hours,
                !.statusHistory = [@ EXCEPT ![1].timestamp = @ - hours]]

\* An order of a kind: placed by u1, assigned by the administrator when the
\* kind names a delivery person, and moved to its status by the
\* administrator.
courierOrder(k) ==
  LET placed == placedEarlier(
                  newOrder("u1", priceItems(<<variantOf(k).line>>, 1, <<>>, 0),
                           deliveryChargeOf(None)),
                  variantOf(k).hours)
      given == IF courierOf(k) = Undefined THEN placed
               ELSE assigned(placed, [deliveryPersonId |-> courierOf(k)])
  IN moved(given, PathTo(statusOf(k)), 1)

\* The kinds of the orders of a collection of up to MaxCourierOrders orders,
\* listed in the order of the kinds (the statistics do not read positions).
CourierLists ==
  {ks \in UNION {[1..n -> CourierKinds] : n \in 0..MaxCourierOrders} :
     \A i \in 1..(Len(ks) - 1) : ks[i] <= ks[i + 1]}

\* Two delivery persons and an orders collection grown by earlier requests,
\* the last of them written now.
InitDeliveryStats ==
  /\ users = CourierUsers
  /\ clothingItems = ClothingItemName
  /\ pricings = SeedPricing
  /\ deliveryChargeConfig = None
  /\ clock = CourierVariants[Len(CourierVariants)].hours
  /\ \E ks \in CourierLists :
       orders = [i \in 1..Len(ks) |-> courierOrder(ks[i])]
  /\ last = NoRequest
  /\ pending = NoPending

\* ----------------------------------------------------------------- actions
\* POST /orders: RolesGuard, then OrdersService.createOrder.
createOrderResult(userId, dto) ==
  IF ~RolesGuard(userId, CreateOrderRoles) THEN "Forbidden"
  ELSE LET priced == priceItems(dto.items, 1, <<>>, 0)
       IN IF priced.error # "none" THEN priced.error ELSE "ok"

CreateOrder(dtos) ==
  \E userId \in UserIds, items \in dtos :
    LET dto == [items |-> items]
        result == createOrderResult(userId, dto)
    IN /\ last = NoRequest
       /\ Authenticated(userId)
       /\ result = "ok" => Len(orders) < MaxOrders /\ TotalEntries < MaxWrites
       /\ orders' =
            IF result = "ok"
              THEN Append(orders,
                          newOrder(userId, priceItems(dto.items, 1, <<>>, 0),
                                   deliveryChargeOf(deliveryChargeConfig)))
              ELSE orders
       /\ last' = Request("createOrder", result, userId,
                          IF result = "ok" THEN Len(orders) + 1 ELSE 0, dto)
       /\ UNCHANGED <<clock, pending,
                      users, clothingItems, pricings, deliveryChargeConfig>>

\* PATCH /orders/:id/status: RolesGuard, then OrdersService.updateOrderStatus.
updateOrderStatusResult(orderId, dto, userId) ==
  IF ~RolesGuard(userId, UpdateOrderStatusRoles) THEN "Forbidden"
  ELSE updateOrderStatusOutcome(orderId, dto, userId)

\* The handler with the status written before the permission check: a
\* caller refused by the service has already changed the order.
UpdateOrderStatus_WriteBeforePermission(dtos) ==
  \E orderId \in OrderIdInputs, userId \in UserIds, dto \in dtos :
    LET result == updateOrderStatusResult(orderId, dto, userId)
        written == /\ RolesGuard(userId, UpdateOrderStatusRoles)
                   /\ orderExists(orderId)
                   /\ isValidStatusTransition(orders[orderId].status, dto.status)
    IN /\ last = NoRequest
       /\ Authenticated(userId)
       /\ written => TotalEntries < MaxWrites
       /\ orders' = IF written
                      THEN [orders EXCEPT ![orderId] = withStatus(@, dto, userId)]
                      ELSE orders
       /\ last' = Request("updateOrderStatus", result, userId, orderId, dto)
       /\ UNCHANGED <<clock, pending,
                      users, clothingItems, pricings, deliveryChargeConfig>>

UpdateOrderStatus(dtos) ==
  \E orderId \in OrderIdInputs, userId \in UserIds, dto \in dtos :
    LET result == updateOrderStatusResult(orderId, dto, userId)
    IN /\ last = NoRequest
       /\ Authenticated(userId)
       /\ result = "ok" => TotalEntries < MaxWrites
       /\ orders' = IF result = "ok"
                      THEN [orders EXCEPT ![orderId] = withStatus(@, dto, userId)]
                      ELSE orders
       /\ last' = Request("updateOrderStatus", result, userId, orderId, dto)
       /\ UNCHANGED <<clock, pending,
                      users, clothingItems, pricings, deliveryChargeConfig>>

\* PATCH /orders/:id/assign: RolesGuard, then
\* OrdersService.assignDeliveryPerson.
assignDeliveryPersonResult(orderId, dto, userId) ==
  IF ~RolesGuard(userId, AssignDeliveryPersonRoles) THEN "Forbidden"
  ELSE assignDeliveryPersonOutcome(orderId, dto)

AssignDeliveryPerson(dtos) ==
  \E orderId \in OrderIdInputs, userId \in UserIds, dto \in dtos :
    LET result == assignDeliveryPersonResult(orderId, dto, userId)
    IN /\ last = NoRequest
       /\ Authenticated(userId)
       /\ orders' = IF result = "ok"
                      THEN [orders EXCEPT ![orderId] = assigned(@, dto)]
                      ELSE orders
       /\ last' = Request("assignDeliveryPerson", result, userId, orderId, dto)
       /\ UNCHANGED <<clock, pending,
                      users, clothingItems, pricings, deliveryChargeConfig>>

\* GET /orders/:id: RolesGuard, then OrdersService.getOrderById.
getOrderByIdResult(orderId, userId) ==
  IF ~RolesGuard(userId, GetOrderByIdRoles) THEN "Forbidden"
  ELSE getOrderByIdOutcome(orderId, userId)

GetOrderById ==
  \E orderId \in OrderIdInputs, userId \in UserIds :
    LET result == getOrderByIdResult(orderId, userId)
    IN /\ last = NoRequest
       /\ Authenticated(userId)
       /\ last' = Reply("getOrderById", result, userId, orderId, <<>>,
                        IF result = "ok" THEN Some(orders[orderId]) ELSE None)
       /\ UNCHANGED <<clock, pending,
                      users, clothingItems, pricings, deliveryChargeConfig, orders>>

\* GET /orders/stats: RolesGuard, then OrdersService.getOrderStats.
getOrderStatsResult(userId) ==
  IF ~RolesGuard(userId, GetOrderStatsRoles) THEN "Forbidden" ELSE "ok"

GetOrderStats ==
  \E userId \in UserIds :
    LET result == getOrderStatsResult(userId)
    IN /\ last = NoRequest
       /\ Authenticated(userId)
       /\ last' = Reply("getOrderStats", result, userId, 0, <<>>,
                        IF result = "ok" THEN Some(getOrderStats(orders))
                        ELSE None)
       /\ UNCHANGED <<clock, pending,
                      users, clothingItems, pricings, deliveryChargeConfig,
                      orders>>

\* GET /orders/delivery/stats: RolesGuard, then
\* OrdersService.getDeliveryStats for the caller.
getDeliveryStatsResult(userId) ==
  IF ~RolesGuard(userId, GetDeliveryStatsRoles) THEN "Forbidden" ELSE "ok"

GetDeliveryStats ==
  \E userId \in UserIds :
    LET result == getDeliveryStatsResult(userId)
    IN /\ last = NoRequest
       /\ Authenticated(userId)
       /\ last' = Reply("getDeliveryStats", result, userId, 0, <<>>,
                        IF result = "ok"
                          THEN Some(getDeliveryStats(orders, userId))
                          ELSE None)
       /\ UNCHANGED <<clock, pending,
                      users, clothingItems, pricings, deliveryChargeConfig,
                      orders>>

\* CatalogService.upsertPricing
UpsertPricing(dtos) ==
  \E dto \in dtos :
    /\ last = NoRequest
    /\ pricings' = upsertedPricing(dto)
    /\ last' = Request("upsertPricing", "ok", Undefined, 0, dto)
    /\ UNCHANGED <<clock, pending,
                   users, clothingItems, deliveryChargeConfig, orders>>

\* upsertPricing served side by side with another: findOneAndUpdate with
\* {upsert: true} looks for the key's document; a match is updated in the same
\* step, and with no match the request goes on to insert.
UpsertPricingFind(dtos) ==
  \E p \in Slots, dto \in dtos :
    LET found == matching(pricings,
                          <<dto.clothingItemId, dto.serviceType, dto.category>>,
                          FALSE)
    IN /\ last = NoRequest
       /\ pending[p] = Free
       /\ pricings' = IF found # {}
                        THEN [pricings EXCEPT ![firstOf(found)] = updated(@, dto)]
                        ELSE pricings
       /\ pending' =
            [pending EXCEPT ![p] =
               IF found # {}
                 THEN Pending("upsertPricing", "done", Undefined, 0, dto,
                              Some(firstOf(found)), "ok")
                 ELSE Pending("upsertPricing", "insert", Undefined, 0, dto,
                              None, "none")]
       /\ UNCHANGED <<clock, users, clothingItems, deliveryChargeConfig,
                      orders, last>>

\* The insert of an upsert that found no match. The unique index refuses it
\* when another request has inserted the key meanwhile; the server then
\* either retries the upsert as an update or reports the duplicate key.
UpsertPricingInsert ==
  \E p \in Slots :
    LET dto == pending[p].dto
        doc == inserted(dto)
        found == matching(pricings,
                          <<doc.clothingItem, doc.serviceType, doc.category>>,
                          FALSE)
        done(result) ==
          [pending EXCEPT ![p] = Pending("upsertPricing", "done", Undefined, 0,
                                         dto, None, result)]
    IN /\ pending[p].op = "upsertPricing"
       /\ pending[p].phase = "insert"
       /\ Len(pricings) < MaxPricings
       /\ IF uniqueIndex(pricings, doc)
            THEN pricings' = Append(pricings, doc) /\ pending' = done("ok")
            ELSE \/ /\ pricings' = [pricings EXCEPT
                                      ![firstOf(found)] = updated(@, dto)]
                    /\ pending' = done("ok")
                 \/ /\ pricings' = pricings
                    /\ pending' = done("DuplicateKey")
       /\ UNCHANGED <<clock, users, clothingItems, deliveryChargeConfig,
                      orders, last>>

\* updateOrderStatus served side by side with another request, up to its
\* save: the guard, findById and the two checks on the document read. A
\* refused request is done; an accepted one holds the document for its save.
UpdateOrderStatusFind(callers, dtos) ==
  \E p \in Slots, orderId \in OrderIdInputs, userId \in callers, dto \in dtos :
    LET result == updateOrderStatusResult(orderId, dto, userId)
    IN /\ last = NoRequest
       /\ pending[p] = Free
       /\ Authenticated(userId)
       /\ pending' =
            [pending EXCEPT ![p] =
               IF result = "ok"
                 THEN Pending("updateOrderStatus", "save", userId, orderId, dto,
                              Some(orders[orderId]), "none")
                 ELSE Pending("updateOrderStatus", "done", userId, orderId, dto,
                              None, result)]
       /\ UNCHANGED <<clock, users, clothingItems, pricings,
                      deliveryChargeConfig, orders, last>>

\* assignDeliveryPerson served side by side with another request, up to its
\* save: the guard, findById on the order and the checks on the user.
AssignDeliveryPersonFind(callers, dtos) ==
  \E p \in Slots, orderId \in OrderIdInputs, userId \in callers, dto \in dtos :
    LET result == assignDeliveryPersonResult(orderId, dto, userId)
    IN /\ last = NoRequest
       /\ pending[p] = Free
       /\ Authenticated(userId)
       /\ pending' =
            [pending EXCEPT ![p] =
               IF result = "ok"
                 THEN Pending("assignDeliveryPerson", "save", userId, orderId,
                              dto, Some(orders[orderId]), "none")
                 ELSE Pending("assignDeliveryPerson", "done", userId, orderId,
                              dto, None, result)]
       /\ UNCHANGED <<clock, users, clothingItems, pricings,
                      deliveryChargeConfig, orders, last>>

\* order.save() of a request that holds a document.
Save ==
  \E p \in Slots :
    LET req == pending[p]
        stored == orders[req.orderId]
        result == saveOutcome(stored, req.read[1])
        written == Len(inMemory(req).statusHistory)
                     - Len(req.read[1].statusHistory)
    IN /\ req.phase = "save"
       /\ TotalEntries + written <= MaxWrites
       /\ orders' = IF result = "ok"
                      THEN [orders EXCEPT ![req.orderId] =
                              save(stored, req.read[1], inMemory(req))]
                      ELSE orders
       /\ pending' = [pending EXCEPT ![p].phase = "done", ![p].result = result]
       /\ UNCHANGED <<clock, users, clothingItems, pricings,
                      deliveryChargeConfig, last>>

\* The response of a request served side by side leaves.
Finish ==
  \E p \in Slots :
    /\ pending[p].phase = "done"
    /\ pending' = [pending EXCEPT ![p] = Free]
    /\ UNCHANGED <<clock, users, clothingItems, pricings,
                   deliveryChargeConfig, orders, last>>

\* CatalogService.calculateOrderTotal: it returns for every list of lines.
CalculateOrderTotal(dtos) ==
  \E items \in dtos :
    /\ last = NoRequest
    /\ last' = Reply("calculateOrderTotal", "ok", Undefined, 0,
                     [items |-> items], Some(calculateOrderTotal(items)))
    /\ UNCHANGED <<clock, pending, users, clothingItems, pricings,
                   deliveryChargeConfig, orders>>

\* The update with the new name also written to the order lines of the item.
UpdateClothingItem_RenameLines ==
  \E dto \in UpdateClothingItemDtos :
    LET result == IF clothingItemExists(dto.id) THEN "ok" ELSE "NotFound"
        renamed(line) == IF line.clothingItem = dto.id
                           THEN [line EXCEPT !.clothingItemName = dto.name]
                           ELSE line
    IN /\ last = NoRequest
       /\ clothingItems' = IF result = "ok"
                             THEN [clothingItems EXCEPT ![dto.id] = dto.name]
                             ELSE clothingItems
       /\ orders' = IF result = "ok"
                      THEN [i \in 1..Len(orders) |->
                              [orders[i] EXCEPT !.items =
                                 [n \in 1..Len(@) |-> renamed(@[n])]]]
                      ELSE orders
       /\ last' = Request("updateClothingItem", result, Undefined, 0, dto)
       /\ UNCHANGED <<clock, pending,
                      users, pricings, deliveryChargeConfig>>

\* CatalogService.updateClothingItem: findByIdAndUpdate(id, dto), NotFound
\* when there is no such item.
UpdateClothingItem ==
  \E dto \in UpdateClothingItemDtos :
    LET result == IF clothingItemExists(dto.id) THEN "ok" ELSE "NotFound"
    IN /\ last = NoRequest
       /\ clothingItems' = IF result = "ok"
                             THEN [clothingItems EXCEPT ![dto.id] = dto.name]
                             ELSE clothingItems
       /\ last' = Request("updateClothingItem", result, Undefined, 0, dto)
       /\ UNCHANGED <<clock, pending,
                      users, pricings, deliveryChargeConfig, orders>>

\* AuthService.completeSignup: a verified user's profile is saved, with the
\* role of the request when it gives one.
completeSignupOutcome(dto) ==
  IF dto.userId \notin DOMAIN users THEN "BadRequest"
  ELSE IF ~users[dto.userId].isVerified THEN "BadRequest"
  ELSE "ok"

CompleteSignup(dtos) ==
  \E dto \in dtos :
    LET result == completeSignupOutcome(dto)
    IN /\ last = NoRequest
       /\ users' = IF result = "ok" /\ dto.role # Undefined
                      THEN [users EXCEPT ![dto.userId].role = dto.role]
                      ELSE users
       /\ last' = Request("completeSignup", result, dto.userId, 0, dto)
       /\ UNCHANGED <<clock, pending,
                      clothingItems, pricings, deliveryChargeConfig, orders>>

\* AuthService.requestOtp: a code is generated and saved with its expiry;
\* UsersService.saveOtp creates the user when the phone number has none.
RequestOtp(phones) ==
  \E phone \in phones, otpCode \in generateOtp :
    /\ last = NoRequest
    /\ users' = saveOtp(phone, otpCode, Some(clock))
    /\ last' = Request("requestOtp", "ok", phone, 0, <<>>)
    /\ UNCHANGED <<clock, pending,
                   clothingItems, pricings, deliveryChargeConfig, orders>>

\* AuthService.verifyOtp: Unauthorized unless the phone number has a user
\* whose saved code is the given one and has not expired; the user is then
\* verified and the code cleared.
VerifyOtp(dtos) ==
  \E dto \in dtos :
    LET result == verifyOtpOutcome(dto)
    IN /\ last = NoRequest
       /\ users' = IF result = "ok"
                      THEN [users EXCEPT ![dto.userId] = verified(@)]
                      ELSE users
       /\ last' = Request("verifyOtp", result, dto.userId, 0, dto)
       /\ UNCHANGED <<clock, pending,
                      clothingItems, pricings, deliveryChargeConfig, orders>>

\* An hour passes between two requests.
Tick ==
  /\ last = NoRequest
  /\ clock < MaxClock
  /\ clock' = clock + 1
  /\ UNCHANGED <<pending, users, clothingItems, pricings,
                 deliveryChargeConfig, orders, last>>

\* The response leaves (ResponseInterceptor on success, HttpExceptionFilter on
\* an exception): the next request may be served.
Respond ==
  /\ last # NoRequest
  /\ last' = NoRequest
  /\ UNCHANGED <<clock, pending,
                 users, clothingItems, pricings, deliveryChargeConfig, orders>>

\* Order lifecycle and assignment, requests served one at a time.
Next ==
  \/ CreateOrder(LifecycleDtos)
  \/ UpdateOrderStatus(UpdateOrderStatusDtos)
  \/ AssignDeliveryPerson(AssignDeliveryDtos)
  \/ Respond

Spec == Init /\ [][Next]_vars

\* Order creation against a changing catalog, requests served one at a time.
NextPricing ==
  \/ CreateOrder(CreateOrderDtos)
  \/ UpsertPricing(CreatePricingDtos)
  \/ Respond

SpecPricing == InitPricing /\ [][NextPricing]_vars

\* The order lifecycle while users change their roles, requests served one at
\* a time.
NextRoles ==
  \/ CreateOrder({<<ShirtLine>>})
  \/ UpdateOrderStatus(BareStatusDtos)
  \/ AssignDeliveryPerson(AssignDeliveryDtos)
  \/ GetOrderById
  \/ CompleteSignup(CompleteSignupDtos)
  \/ Respond

SpecRoles == Init /\ [][NextRoles]_vars

\* The order lifecycle while the catalog is renamed and repriced, requests
\* served one at a time.
NextCatalog ==
  \/ CreateOrder({<<ShirtLine>>})
  \/ UpdateOrderStatus(BareStatusDtos)
  \/ AssignDeliveryPerson(CourierDtos)
  \/ UpsertPricing(RepricingDtos)
  \/ UpdateClothingItem
  \/ Respond

SpecCatalog == Init /\ [][NextCatalog]_vars

\* The dashboard statistics asked of an orders collection.
NextStats ==
  \/ GetOrderStats
  \/ Respond

SpecStats == InitStats /\ [][NextStats]_vars

\* A delivery person's statistics asked of an orders collection.
NextDeliveryStats ==
  \/ GetDeliveryStats
  \/ Respond

SpecDeliveryStats == InitDeliveryStats /\ [][NextDeliveryStats]_vars

\* The order lifecycle and assignment to the delivery user as time passes,
\* requests served one at a time.
NextTime ==
  \/ CreateOrder({<<ShirtLine>>})
  \/ UpdateOrderStatus(BareStatusDtos)
  \/ AssignDeliveryPerson(CourierDtos)
  \/ Tick
  \/ Respond

SpecTime == Init /\ [][NextTime]_vars

\* Two upsertPricing requests served side by side.
NextUpsert ==
  \/ UpsertPricingFind(RacingPricingDtos)
  \/ UpsertPricingInsert
  \/ Finish

SpecUpsert == Init /\ [][NextUpsert]_vars

\* Two updateOrderStatus requests served side by side on the orders the
\* customer has placed.
NextRace ==
  \/ CreateOrder({<<ShirtLine>>})
  \/ Respond
  \/ UpdateOrderStatusFind(RaceCallers, RaceStatusDtos)
  \/ Save
  \/ Finish

SpecRace == Init /\ [][NextRace]_vars

\* Order totals asked of a changing catalog.
NextQuote ==
  \/ CalculateOrderTotal(CreateOrderDtos)
  \/ UpsertPricing(CreatePricingDtos \cup RepricingDtos)
  \/ Respond

SpecQuote == InitPricing /\ [][NextQuote]_vars

\* The order lifecycle with a second delivery person: the customer takes the
\* delivery role, and orders are assigned to either of the two.
NextCouriers ==
  \/ CreateOrder({<<ShirtLine>>})
  \/ CompleteSignup(NewCourierDtos)
  \/ AssignDeliveryPerson(TwoCourierDtos)
  \/ UpdateOrderStatus(BareStatusDtos)
  \/ GetOrderById
  \/ GetDeliveryStats
  \/ Respond

SpecCouriers == Init /\ [][NextCouriers]_vars

\* An updateOrderStatus and an assignDeliveryPerson served side by side on
\* the order the customer has placed.
NextAssignRace ==
  \/ UpdateOrderStatusFind(RaceCallers, RaceStatusDtos)
  \/ AssignDeliveryPersonFind(RaceCallers, CourierDtos)
  \/ Save
  \/ Finish

SpecAssignRace == InitPlaced /\ [][NextAssignRace]_vars

\* The login flow beside the operations on one placed order, requests served
\* one at a time.
NextSignup ==
  \/ RequestOtp(SignupPhones)
  \/ VerifyOtp(VerifyOtpDtos)
  \/ CompleteSignup(AdminSignupDtos)
  \/ AssignDeliveryPerson(CourierDtos)
  \/ UpdateOrderStatus(FirstStatusDtos)
  \/ GetOrderStats
  \/ Tick
  \/ Respond

SpecSignup == InitNoAdmin /\ [][NextSignup]_vars

\* ======================================================================
\* Properties
\* ======================================================================
\* The transition table of the specification (section 4.1).
TransitionTable ==
  [s \in OrderStatus |->
     CASE s = REQUESTED -> {PICKED_UP, CANCELLED}
       [] s = PICKED_UP -> {IN_LAUNDRY, CANCELLED}
       [] s = IN_LAUNDRY -> {OUT_FOR_DELIVERY}
       [] s = OUT_FOR_DELIVERY -> {DELIVERED}
       [] s = DELIVERED -> {}
       [] s = CANCELLED -> {}]

TerminalStatuses == {DELIVERED, CANCELLED}

\* No request is being answered: every state of the collections is also seen
\* in such a state.
Idle == last = NoRequest
\* The request just served was `op`.
Served(op) == last.op = op
\* The request just served was an updateOrderStatus that reached the service
\* and found its order.
UpdateReachedOrder ==
  /\ Served("updateOrderStatus")
  /\ last.orderId \in 1..Len(last.before)
  /\ users[last.caller].role \in UpdateOrderStatusRoles

RECURSIVE SumSeq(_)
SumSeq(seq) == IF seq = <<>> THEN 0 ELSE Head(seq) + SumSeq(Tail(seq))

\* C1: for all 36 pairs (s, t) of order statuses, isValidStatusTransition(s, t)
\* is true exactly when t is listed for s in the transition table, so no
\* status may transition to itself; and an updateOrderStatus that reaches an
\* order is turned down as an invalid transition exactly for the unlisted
\* targets.
C1_TransitionTable ==
  /\ Idle =>
       /\ \A s \in OrderStatus, t \in OrderStatus :
            isValidStatusTransition(s, t) <=> t \in TransitionTable[s]
       /\ \A s \in OrderStatus : ~isValidStatusTransition(s, s)
  /\ UpdateReachedOrder =>
       ((last.result = "BadRequest")
          <=> last.dto.status \notin TransitionTable[last.before[last.orderId].status])

\* C1 witness: a request to move an order out for delivery to the status it
\* already has was turned down as an invalid transition.
C1_Witness ==
  /\ UpdateReachedOrder
  /\ last.before[last.orderId].status = OUT_FOR_DELIVERY
  /\ last.dto.status = OUT_FOR_DELIVERY
  /\ last.result = "BadRequest"

\* C2: every order has a non-empty statusHistory whose last entry carries
\* order.status, after createOrder and after every accepted or rejected
\* updateOrderStatus and assignDeliveryPerson.
C2_LastEntryIsStatus ==
  \A i \in 1..Len(orders) :
    /\ Len(orders[i].statusHistory) >= 1
    /\ orders[i].statusHistory[Len(orders[i].statusHistory)].status
         = orders[i].status

\* C2 witness: an accepted status update has been followed by a rejected one
\* on an order that has a delivery person.
C2_Witness ==
  /\ Served("updateOrderStatus")
  /\ last.result = "Forbidden"
  /\ last.orderId \in 1..Len(orders)
  /\ Len(orders[last.orderId].statusHistory) >= 3
  /\ orders[last.orderId].deliveryPerson # Undefined

\* C3: with requests served one at a time, the first statusHistory entry of
\* every order is REQUESTED and every two consecutive entries are a transition
\* the table lists.
C3_HistoryFollowsTable ==
  \A i \in 1..Len(orders) :
    LET h == orders[i].statusHistory IN
    /\ h[1].status = REQUESTED
    /\ \A k \in 1..(Len(h) - 1) : h[k + 1].status \in TransitionTable[h[k].status]

\* C3 witness: an order went through the whole table to DELIVERED.
C3_Witness ==
  \E i \in 1..Len(orders) :
    /\ Len(orders[i].statusHistory) = 5
    /\ orders[i].status = DELIVERED

CreateReachedService ==
  /\ Served("createOrder")
  /\ users[last.caller].role \in CreateOrderRoles

\* The catalog's entry for a key: the price and activity of the document
\* with that key, or no entry.
NoEntry == [price |-> -1, isActive |-> FALSE, exists |-> FALSE]

pricingEntry(key) ==
  LET found == {i \in 1..Len(pricings) :
                  <<pricings[i].clothingItem, pricings[i].serviceType,
                    pricings[i].category>> = key}
  IN IF found = {} THEN NoEntry
     ELSE LET doc == pricings[CHOOSE i \in found : TRUE]
          IN [price |-> doc.price, isActive |-> doc.isActive, exists |-> TRUE]

\* An active price is on file for service k of a request line.
ActivelyPriced(line, k) ==
  LET key == <<line.clothingItemId, line.services[k], line.category>> IN
  /\ pricingEntry(key).exists
  /\ pricingEntry(key).isActive

\* Some requested (item, service, category) of the line has no active price.
LineUnpriced(line) == \E k \in 1..Len(line.services) : ~ActivelyPriced(line, k)

\* The catalog prices of the services a request line asks for.
ServicePrices(line) ==
  [k \in 1..Len(line.services) |->
     pricingEntry(<<line.clothingItemId, line.services[k], line.category>>).price]

\* The delivery charge the environment configures.
ConfiguredCharge ==
  IF deliveryChargeConfig = None THEN 60 ELSE deliveryChargeConfig[1]

\* C6: for every order persisted by createOrder, each line's unitPrice is the
\* sum of the active catalog prices of its requested services, each subtotal
\* is unitPrice x quantity, itemsTotal is the sum of the subtotals,
\* deliveryCharge is the one configured value whatever the number of lines,
\* and grandTotal is itemsTotal + deliveryCharge (a shirt washed at 40 and
\* ironed at 25, quantity 2, charge 60: itemsTotal 130, grandTotal 190).
C6_OrderPricing ==
  /\ \A i \in 1..Len(orders) :
       LET o == orders[i] IN
       /\ \A n \in 1..Len(o.items) :
            o.items[n].subtotal = o.items[n].unitPrice * o.items[n].quantity
       /\ o.pricing.itemsTotal
            = SumSeq([n \in 1..Len(o.items) |-> o.items[n].subtotal])
       /\ o.pricing.deliveryCharge = ConfiguredCharge
       /\ o.pricing.grandTotal = o.pricing.itemsTotal + o.pricing.deliveryCharge
  /\ CreateReachedService /\ last.result = "ok" =>
       LET o == orders[last.orderId]
           lines == last.dto.items
       IN /\ Len(orders) = Len(last.before) + 1
          /\ last.orderId = Len(orders)
          /\ Len(o.items) = Len(lines)
          /\ \A n \in 1..Len(lines) :
               /\ ~LineUnpriced(lines[n])
               /\ o.items[n].unitPrice = SumSeq(ServicePrices(lines[n]))
               /\ o.items[n].quantity = lines[n].quantity
          /\ (lines = <<OrderItemDto("shirt", MEN, <<WASHING, IRONING>>, 2)>>
                /\ deliveryChargeConfig = None)
             => /\ o.items[1].unitPrice = 65
                /\ o.pricing.itemsTotal = 130
                /\ o.pricing.grandTotal = 190

\* C6 witness: an order of two lines, washed-and-ironed shirts and a women's
\* shirt priced after the seed, was persisted with one delivery charge.
C6_Witness ==
  /\ CreateReachedService
  /\ last.result = "ok"
  /\ Len(orders[last.orderId].items) = 2
  /\ orders[last.orderId].items[1].unitPrice = 65
  /\ orders[last.orderId].items[2].unitPrice = 45
  /\ orders[last.orderId].pricing.grandTotal
       = 65 * orders[last.orderId].items[1].quantity + 45 + ConfiguredCharge

\* The first line of a request that createOrder cannot price: its item does
\* not exist or one of its services has no active price. 0 when there is none.
FirstFailingLine(lines) ==
  LET failing == {n \in 1..Len(lines) :
                    \/ lines[n].clothingItemId \notin ClothingItemIds
                    \/ LineUnpriced(lines[n])}
  IN IF failing = {} THEN 0
     ELSE CHOOSE n \in failing : \A m \in failing : n <= m

\* C7 as stated: a createOrder with any requested (item, service, category)
\* lacking an active pricing entry fails with the pricing validation error
\* and leaves the order collection unchanged.
C7_Original ==
  CreateReachedService
    /\ (\E n \in 1..Len(last.dto.items) : LineUnpriced(last.dto.items[n]))
    => last.result = "BadRequest" /\ orders = last.before

\* C7, amended: a createOrder with any requested (item, service, category)
\* lacking an active pricing entry (none on file, or one with isActive false)
\* fails and leaves the order collection unchanged, even when earlier lines
\* were priced; it fails with the pricing validation error when the first
\* line that cannot be priced names a stored clothing item, and with the
\* clothing-item lookup's NotFound when that line carries the well-formed id
\* of no stored clothing item.
C7_AllOrNothingPricing ==
  CreateReachedService
    /\ (\E n \in 1..Len(last.dto.items) : LineUnpriced(last.dto.items[n]))
    => LET first == last.dto.items[FirstFailingLine(last.dto.items)] IN
       /\ orders = last.before
       /\ last.result =
            IF first.clothingItemId \in ClothingItemIds
              THEN "BadRequest" ELSE "NotFound"

\* C7 witness: a request whose first line was priced and whose second line
\* asks for a service with a deactivated price was turned down, with an order
\* already in the collection.
C7_Witness ==
  /\ CreateReachedService
  /\ last.result = "BadRequest"
  /\ Len(last.dto.items) = 2
  /\ ~LineUnpriced(last.dto.items[1])
  /\ LET line == last.dto.items[2]
         key == <<line.clothingItemId, line.services[1], line.category>>
     IN pricingEntry(key).exists /\ ~pricingEntry(key).isActive
  /\ Len(orders) >= 1
  /\ orders = last.before

\* C8 as stated: an updateOrderStatus on an existing order by a caller who is
\* neither its assigned delivery person nor an administrator fails with
\* Forbidden whatever the target status.
C8_ForbiddenFirst ==
  Served("updateOrderStatus")
    /\ last.orderId \in 1..Len(last.before)
    /\ last.before[last.orderId].deliveryPerson # last.caller
    /\ users[last.caller].role # ADMIN
    => last.result = "Forbidden"

\* C9: every statusHistory entry after the first is written by a successful
\* updateOrderStatus whose caller is then an administrator or the delivery
\* person then assigned to that order; the status of an order without a
\* delivery person changes only at the hand of an administrator, and a caller
\* who is then a customer never changes the status of an order, not even to
\* cancel their own.
C9_WhoMayUpdate ==
  /\ Served("updateOrderStatus") /\ last.result = "ok" =>
       LET b == last.before[last.orderId]
           entry == orders[last.orderId].statusHistory[Len(b.statusHistory) + 1]
       IN /\ entry.updatedBy = last.caller
          /\ \/ users[last.caller].role = ADMIN
             \/ b.deliveryPerson = last.caller
          /\ b.deliveryPerson = Undefined => users[last.caller].role = ADMIN
          /\ users[last.caller].role # CUSTOMER
  /\ Served("updateOrderStatus") /\ users[last.caller].role = CUSTOMER =>
       last.result # "ok" /\ orders = last.before
  /\ \A i \in 1..Len(last.before) :
       \/ /\ orders[i].status = last.before[i].status
          /\ orders[i].statusHistory = last.before[i].statusHistory
       \/ /\ Served("updateOrderStatus")
          /\ last.result = "ok"
          /\ last.orderId = i

\* C9 witness: a user placed an order as a customer, was assigned to it as
\* its delivery person, became a customer again, asked to cancel the order,
\* still REQUESTED, and was refused.
C9_Witness ==
  /\ Served("updateOrderStatus")
  /\ last.orderId \in 1..Len(orders)
  /\ orders[last.orderId].customer = last.caller
  /\ orders[last.orderId].deliveryPerson = last.caller
  /\ users[last.caller].role = CUSTOMER
  /\ orders[last.orderId].status = REQUESTED
  /\ last.dto.status = CANCELLED
  /\ last.result = "Forbidden"

\* C10: a successful updateOrderStatus sets order.status to the target, which
\* the table lists for the status the order had, and appends exactly one
\* statusHistory entry with the target status, the caller and the supplied
\* note ("" when none is given); customer, deliveryPerson, items and pricing
\* stay as they were, and so does every other order.
C10_UpdateEffect ==
  Served("updateOrderStatus") /\ last.result = "ok" =>
    LET b == last.before[last.orderId]
        o == orders[last.orderId]
    IN /\ o.status = last.dto.status
       /\ last.dto.status \in TransitionTable[b.status]
       /\ o.statusHistory =
            Append(b.statusHistory,
                   [status |-> last.dto.status,
                    timestamp |-> clock,
                    note |-> IF last.dto.note = Undefined THEN ""
                             ELSE last.dto.note,
                    updatedBy |-> last.caller])
       /\ o.customer = b.customer
       /\ o.deliveryPerson = b.deliveryPerson
       /\ o.items = b.items
       /\ o.pricing = b.pricing
       /\ Len(orders) = Len(last.before)
       /\ \A i \in 1..Len(orders) : i # last.orderId => orders[i] = last.before[i]

\* C10 witness: the assigned delivery person moved an order that had been in
\* the laundry out for delivery, with a note, after an update without one.
C10_Witness ==
  /\ Served("updateOrderStatus")
  /\ last.result = "ok"
  /\ last.dto.status = OUT_FOR_DELIVERY
  /\ last.dto.note = "left at the door"
  /\ orders[last.orderId].deliveryPerson = last.caller
  /\ orders[last.orderId].statusHistory[4].note = "left at the door"
  /\ orders[last.orderId].statusHistory[3].note = ""

\* C11: every rejected updateOrderStatus (NotFound for an unknown order id,
\* Forbidden, or the invalid-transition BadRequest) leaves every order's
\* status, statusHistory and deliveryPerson as they were: no order is moved
\* to a nearby legal status instead.
C11_RejectedUpdateChangesNothing ==
  Served("updateOrderStatus") /\ last.result # "ok" =>
    /\ last.result \in {"NotFound", "Forbidden", "BadRequest"}
    /\ Len(orders) = Len(last.before)
    /\ \A i \in 1..Len(orders) :
         /\ orders[i].status = last.before[i].status
         /\ orders[i].statusHistory = last.before[i].statusHistory
         /\ orders[i].deliveryPerson = last.before[i].deliveryPerson
    /\ orders = last.before

\* C11 witness: the assigned delivery person asked to move a REQUESTED order
\* straight to IN_LAUNDRY, skipping PICKED_UP, and was turned down.
C11_Witness ==
  /\ Served("updateOrderStatus")
  /\ last.result = "BadRequest"
  /\ last.orderId \in 1..Len(orders)
  /\ orders[last.orderId].deliveryPerson = last.caller
  /\ orders[last.orderId].status = REQUESTED
  /\ last.dto.status = IN_LAUNDRY

\* a is an initial segment of b.
IsPrefix(a, b) == Len(a) <= Len(b) /\ SubSeq(b, 1, Len(a)) = a

\* C12: statusHistory is append-only: over every step no order disappears,
\* every order's statusHistory before the step is a prefix of its
\* statusHistory after it (so the history at any earlier point is a prefix of
\* the history at any later point), and the first entry is the REQUESTED
\* entry written at creation.
C12_AppendOnly ==
  [][/\ Len(orders) <= Len(orders')
     /\ \A i \in 1..Len(orders) :
          IsPrefix(orders[i].statusHistory, orders'[i].statusHistory)
     /\ \A i \in 1..Len(orders') :
          orders'[i].statusHistory[1] =
            [status |-> REQUESTED, timestamp |-> orders'[i].createdAt,
             note |-> "Order placed",
             updatedBy |-> orders'[i].customer]]_vars

\* C12 witness: an order was picked up and then cancelled, with a delivery
\* person assigned along the way; its history has three entries, the first
\* still the one written at creation.
C12_Witness ==
  \E i \in 1..Len(orders) :
    /\ Len(orders[i].statusHistory) = 3
    /\ orders[i].status = CANCELLED
    /\ orders[i].deliveryPerson # Undefined
    /\ orders[i].statusHistory[1].note = "Order placed"
    /\ orders[i].statusHistory[2].status = PICKED_UP

\* The request just served was an assignDeliveryPerson that passed the role
\* guard.
AssignReachedService ==
  /\ Served("assignDeliveryPerson")
  /\ users[last.caller].role \in AssignDeliveryPersonRoles

\* C13: assignDeliveryPerson fails with NotFound when the order or the
\* target user does not exist, and with the validation error (BadRequest)
\* when the target user exists without the delivery role; every failing call
\* leaves deliveryPerson, status and statusHistory of every order unchanged.
C13_AssignFailures ==
  /\ AssignReachedService =>
       LET target == last.dto.deliveryPersonId IN
       /\ last.orderId \notin 1..Len(last.before) => last.result = "NotFound"
       /\ target \notin UserIds => last.result = "NotFound"
       /\ (/\ last.orderId \in 1..Len(last.before)
           /\ target \in UserIds
           /\ users[target].role # DELIVERY) => last.result = "BadRequest"
       /\ (/\ last.orderId \in 1..Len(last.before)
           /\ target \in UserIds
           /\ users[target].role = DELIVERY) => last.result = "ok"
  /\ Served("assignDeliveryPerson") /\ last.result # "ok" =>
       orders = last.before

\* C13 witness: an administrator named a customer as delivery person of an
\* order that already had one, and was turned down.
C13_Witness ==
  /\ AssignReachedService
  /\ last.result = "BadRequest"
  /\ users[last.dto.deliveryPersonId].role = CUSTOMER
  /\ orders[last.orderId].deliveryPerson # Undefined
  /\ orders[last.orderId].deliveryPerson # last.dto.deliveryPersonId

C17_CreatedOrder ==
  /\ Served("createOrder") /\ last.result = "ok" =>
       LET o == orders[Len(orders)] IN
       /\ Len(orders) = Len(last.before) + 1
       /\ o.customer = last.caller
       /\ o.status = REQUESTED
       /\ o.deliveryPerson = Undefined
       /\ o.statusHistory = <<[status |-> REQUESTED, timestamp |-> clock,
                               note |-> "Order placed",
                               updatedBy |-> last.caller]>>
  /\ \A i \in 1..Len(last.before) : orders[i].customer = last.before[i].customer
  /\ \A i \in 1..Len(orders) :
       orders[i].statusHistory[1].updatedBy = orders[i].customer

\* C17 witness: a user who has since left the customer role is still the
\* customer of the order they placed, now delivered by that same user.
C17_Witness ==
  \E i \in 1..Len(orders) :
    /\ users[orders[i].customer].role = DELIVERY
    /\ orders[i].deliveryPerson = orders[i].customer
    /\ orders[i].status = DELIVERED
    /\ Served("updateOrderStatus")
    /\ last.result = "ok"
    /\ last.orderId = i

\* The caller of the request just served is the customer of order i, its
\* assigned delivery person, or an administrator.
HasAccess(i) ==
  \/ last.before[i].customer = last.caller
  \/ last.before[i].deliveryPerson = last.caller
  \/ users[last.caller].role = ADMIN

\* C15: for every existing order and every caller, getOrderById returns the
\* order if and only if the caller is its customer, its currently assigned
\* delivery person or an administrator; every other caller receives
\* Forbidden, a delivery person not assigned to it included, also while the
\* order is unassigned and REQUESTED.
C15_ReadAccess ==
  Served("getOrderById") /\ last.orderId \in 1..Len(last.before) =>
    /\ orders = last.before
    /\ IF HasAccess(last.orderId)
         THEN last.result = "ok" /\ last.body = Some(orders[last.orderId])
         ELSE last.result = "Forbidden" /\ last.body = None

\* C15 witness: a delivery person asked for an order that was REQUESTED and
\* had no delivery person, and received Forbidden.
C15_Witness ==
  /\ Served("getOrderById")
  /\ last.orderId \in 1..Len(orders)
  /\ users[last.caller].role = DELIVERY
  /\ orders[last.orderId].deliveryPerson = Undefined
  /\ orders[last.orderId].status = REQUESTED
  /\ orders[last.orderId].customer # last.caller
  /\ last.result = "Forbidden"

\* C16 as stated: for a caller who is not the customer, the assigned
\* delivery person or an administrator, the outcome of getOrderById and of
\* updateOrderStatus on an existing order is the outcome of the same request
\* on an order id that does not exist.
C16_NoExistenceProbe ==
  /\ Served("getOrderById")
       /\ last.orderId \in 1..Len(last.before)
       /\ ~HasAccess(last.orderId)
     => last.result = getOrderByIdResult(Len(orders) + 1, last.caller)
  /\ Served("updateOrderStatus")
       /\ last.orderId \in 1..Len(last.before)
       /\ ~HasAccess(last.orderId)
     => last.result
          = updateOrderStatusResult(Len(orders) + 1, last.dto, last.caller)

\* C18: an order's items (names, unit prices, subtotals) and pricing
\* (itemsTotal, deliveryCharge, grandTotal) are fixed at creation: no step of
\* updateOrderStatus, assignDeliveryPerson, upsertPricing, updateClothingItem
\* or a later createOrder changes them, and grandTotal = itemsTotal +
\* deliveryCharge stays true.
C18_SnapshotFixed ==
  [][/\ Len(orders) <= Len(orders')
     /\ \A i \in 1..Len(orders) :
          /\ orders'[i].items = orders[i].items
          /\ orders'[i].pricing = orders[i].pricing
     /\ \A i \in 1..Len(orders') :
          orders'[i].pricing.grandTotal
            = orders'[i].pricing.itemsTotal + orders'[i].pricing.deliveryCharge]_vars

\* C18 witness: an order placed at the seeded name and price, since assigned
\* and picked up, keeps both after the shirt was renamed and its washing
\* price raised; an order placed afterwards carries the new ones.
C18_Witness ==
  /\ clothingItems["shirt"] = "Formal Shirt"
  /\ pricingEntry(<<"shirt", WASHING, MEN>>).price = 55
  /\ Len(orders) = 2
  /\ orders[1].items[1].clothingItemName = "Shirt"
  /\ orders[1].items[1].unitPrice = 65
  /\ orders[1].status = PICKED_UP
  /\ orders[1].deliveryPerson # Undefined
  /\ orders[2].items[1].clothingItemName = "Formal Shirt"
  /\ orders[2].items[1].unitPrice = 80

\* C19 as stated: every persisted order has a non-empty items list, and every
\* line of it a non-empty list of services and a quantity of at least 1.
C19_NonEmptyItems ==
  \A i \in 1..Len(orders) :
    /\ Len(orders[i].items) >= 1
    /\ \A n \in 1..Len(orders[i].items) :
         /\ Len(orders[i].items[n].services) >= 1
         /\ orders[i].items[n].quantity >= 1

\* The number of orders of the collection whose status is among S.
CountIn(S) == Cardinality({i \in 1..Len(orders) : orders[i].status \in S})

\* C20: getOrderStats returns pendingOrders = the number of REQUESTED
\* orders, inProgressOrders = the number of PICKED_UP, IN_LAUNDRY and
\* OUT_FOR_DELIVERY orders, completedOrders = the number of DELIVERED
\* orders, cancelledOrders = the number of CANCELLED orders, and totalOrders
\* = the size of the collection = the sum of the four (3 REQUESTED, 2
\* DELIVERED, 1 CANCELLED give 6, 3, 0, 2, 1; an empty collection all zeros).
C20_OrderStats ==
  Served("getOrderStats") /\ last.result = "ok" =>
    LET stats == last.body[1] IN
    /\ stats.pendingOrders = CountIn({REQUESTED})
    /\ stats.inProgressOrders = CountIn({PICKED_UP, IN_LAUNDRY, OUT_FOR_DELIVERY})
    /\ stats.completedOrders = CountIn({DELIVERED})
    /\ stats.cancelledOrders = CountIn({CANCELLED})
    /\ stats.totalOrders = Len(orders)
    /\ stats.totalOrders = stats.pendingOrders + stats.inProgressOrders
                             + stats.completedOrders + stats.cancelledOrders
    /\ orders = <<>> =>
         stats = [totalOrders |-> 0, pendingOrders |-> 0, inProgressOrders |-> 0,
                  completedOrders |-> 0, cancelledOrders |-> 0]
    /\ (CountIn({REQUESTED}) = 3 /\ CountIn({DELIVERED}) = 2
          /\ CountIn({CANCELLED}) = 1 /\ Len(orders) = 6) =>
         stats = [totalOrders |-> 6, pendingOrders |-> 3, inProgressOrders |-> 0,
                  completedOrders |-> 2, cancelledOrders |-> 1]

\* C20 witness: an administrator asked for the statistics of a collection
\* of 3 REQUESTED, 2 DELIVERED and 1 CANCELLED orders.
C20_Witness ==
  /\ Served("getOrderStats")
  /\ last.result = "ok"
  /\ Len(orders) = 6
  /\ CountIn({REQUESTED}) = 3
  /\ CountIn({DELIVERED}) = 2
  /\ CountIn({CANCELLED}) = 1
  /\ last.body[1].totalOrders = 6

\* The orders a delivery person is assigned to, and those of them in a status.
OrdersOf(c) == {i \in 1..Len(orders) : orders[i].deliveryPerson = c}
OrdersOfIn(c, status) == {i \in OrdersOf(c) : orders[i].status = status}

\* The sum of grandTotal over a set of orders.
RECURSIVE Revenue(_)
Revenue(S) ==
  IF S = {} THEN 0
  ELSE LET i == CHOOSE x \in S : TRUE
       IN orders[i].pricing.grandTotal + Revenue(S \ {i})

\* C21: for every delivery person c, getDeliveryStats(c) returns
\* totalDeliveries = the number of orders whose deliveryPerson is c,
\* completedDeliveries = the number of those in DELIVERED, cancelledDeliveries
\* = the number of those in CANCELLED and totalRevenue = the sum of grandTotal
\* over c's DELIVERED orders; when c has no DELIVERED order, totalRevenue and
\* averageDeliveryTime are 0, and the request raises no error.
C21_DeliveryStats ==
  /\ Served("getDeliveryStats") /\ last.result = "ok" =>
       LET stats == last.body[1]
           c == last.caller
       IN /\ stats.totalDeliveries = Cardinality(OrdersOf(c))
          /\ stats.completedDeliveries = Cardinality(OrdersOfIn(c, DELIVERED))
          /\ stats.cancelledDeliveries = Cardinality(OrdersOfIn(c, CANCELLED))
          /\ stats.totalRevenue = Revenue(OrdersOfIn(c, DELIVERED))
          /\ OrdersOfIn(c, DELIVERED) = {} =>
               stats.totalRevenue = 0 /\ stats.averageDeliveryTime = 0
  /\ Served("getDeliveryStats") =>
       (last.result = "ok" <=> users[last.caller].role = DELIVERY)
  /\ Served("getDeliveryStats") /\ last.result # "ok" =>
       last.result = "Forbidden"

\* C21 witness: a delivery person with a delivered shirt order, a delivered
\* pants order and an order still in the laundry asked for the statistics.
C21_Witness ==
  /\ Served("getDeliveryStats")
  /\ last.result = "ok"
  /\ last.body[1].totalDeliveries = 3
  /\ last.body[1].completedDeliveries = 2
  /\ last.body[1].totalRevenue = 300
  /\ last.body[1].averageDeliveryTime = 200

\* C21 witness of the empty case: a delivery person whose only order is
\* cancelled, while another delivery person has delivered orders.
C21_NoDeliveredWitness ==
  /\ Served("getDeliveryStats")
  /\ last.result = "ok"
  /\ last.body[1].cancelledDeliveries = 1
  /\ last.body[1].totalDeliveries = 1
  /\ last.body[1].totalRevenue = 0
  /\ \E i \in 1..Len(orders) :
       orders[i].status = DELIVERED /\ orders[i].deliveryPerson # Undefined
\* C22: for every order whose status is DELIVERED, updatedAt is the time the
\* order was delivered, that is the timestamp of its DELIVERED statusHistory
\* entry, after any sequence of operations on the order.
C22_UpdatedAtIsDeliveryTime ==
  \A i \in 1..Len(orders) :
    orders[i].status = DELIVERED =>
      \E k \in 1..Len(orders[i].statusHistory) :
        /\ orders[i].statusHistory[k].status = DELIVERED
        /\ orders[i].updatedAt = orders[i].statusHistory[k].timestamp
\* C23: after any sequence of upsertPricing calls, also calls that
\* interleave on one key, the catalog holds at most one pricing entry per
\* (clothing item, service type, category), so getItemPrice never has two
\* active candidates for a key.
C23_OnePricingPerKey ==
  \A key \in PricingKeys :
    /\ Cardinality(matching(pricings, key, FALSE)) <= 1
    /\ Cardinality(matching(pricings, key, TRUE)) <= 1

\* C23 witness: two upserts of the women's shirt price both found no entry,
\* both went on to insert, and both are done; the later one was retried as an
\* update, so the entry carries its price.
C23_Witness ==
  /\ \A p \in Slots :
       /\ pending[p].op = "upsertPricing"
       /\ pending[p].phase = "done"
       /\ pending[p].read = None
       /\ pending[p].result = "ok"
       /\ pending[p].dto.category = WOMEN
  /\ pending["a"].dto.price # pending["b"].dto.price
  /\ Cardinality(matching(pricings, <<"shirt", WASHING, WOMEN>>, TRUE)) = 1
\* Two requests of one operation on one order that are both done and had
\* both read the order before either of them wrote.
BothRead(p, q, op) ==
  /\ p # q
  /\ pending[p].op = op /\ pending[q].op = op
  /\ pending[p].phase = "done" /\ pending[q].phase = "done"
  /\ pending[p].read # None /\ pending[q].read # None
  /\ pending[p].orderId = pending[q].orderId
  /\ pending[p].read = pending[q].read

\* C24: two concurrent updateOrderStatus requests on one order race: when
\* both read the order before either writes, both pass the transition check
\* against the same pre-update status and both write (no save is refused),
\* and the statusHistory is left with the two new entries after the ones
\* read, in the order of the writes. They are a duplicated entry or two
\* consecutive entries the transition table does not allow, in every order
\* of the writes but one: PICKED_UP written before CANCELLED.
C24_UpdatesRace ==
  /\ \A p \in Slots :
       (pending[p].op = "updateOrderStatus" /\ pending[p].phase = "done"
          /\ pending[p].read # None) => pending[p].result = "ok"
  /\ \A p, q \in Slots :
       BothRead(p, q, "updateOrderStatus") =>
         LET read == pending[p].read[1]
             h == orders[pending[p].orderId].statusHistory
             n == Len(read.statusHistory)
         IN /\ pending[p].dto.status \in TransitionTable[read.status]
            /\ pending[q].dto.status \in TransitionTable[read.status]
            /\ Len(h) = n + 2
            /\ SubSeq(h, 1, n) = read.statusHistory
            /\ \/ (h[n + 1].status = pending[p].dto.status
                    /\ h[n + 2].status = pending[q].dto.status)
               \/ (h[n + 1].status = pending[q].dto.status
                    /\ h[n + 2].status = pending[p].dto.status)
            /\ (\/ h[n + 1].status = h[n + 2].status
                \/ h[n + 2].status \notin TransitionTable[h[n + 1].status])
                 <=> ~(h[n + 1].status = PICKED_UP
                         /\ h[n + 2].status = CANCELLED)
            /\ orders[pending[p].orderId].status = h[n + 2].status

\* C24 witness: a request to move a picked-up order to the laundry and a
\* request to cancel it both read it as picked up; the history now ends
\* PICKED_UP, IN_LAUNDRY, CANCELLED.
C24_Witness ==
  \E p, q \in Slots :
    /\ BothRead(p, q, "updateOrderStatus")
    /\ pending[p].read[1].status = PICKED_UP
    /\ LET h == orders[pending[p].orderId].statusHistory
       IN /\ Len(h) = 4
          /\ h[2].status = PICKED_UP
          /\ h[3].status = IN_LAUNDRY
          /\ h[4].status = CANCELLED
    /\ orders[pending[p].orderId].status = CANCELLED
\* C25: calculateOrderTotal agrees with the pricing done by createOrder: for
\* every catalog and every list of lines it reports a failure exactly when
\* createOrder would fail on the lines (a requested service with no active
\* price is never skipped or counted as zero), and otherwise returns the
\* itemsTotal and the per-line subtotals that createOrder stores.
C25_SameAsCreateOrder ==
  Served("calculateOrderTotal") =>
    LET priced == priceItems(last.dto.items, 1, <<>>, 0)
        total == last.body[1]
    IN /\ last.result = "ok" <=> priced.error = "none"
       /\ last.result = "ok" =>
            /\ total.itemsTotal = priced.itemsTotal
            /\ Len(total.breakdown) = Len(priced.items)
            /\ \A n \in 1..Len(priced.items) :
                 total.breakdown[n].subtotal = priced.items[n].subtotal
\* How far along the lifecycle a status is: the most updates that can have
\* led to it.
Stage(status) ==
  CASE status = REQUESTED -> 0
    [] status = PICKED_UP -> 1
    [] status = IN_LAUNDRY -> 2
    [] status = OUT_FOR_DELIVERY -> 3
    [] status = DELIVERED -> 4
    [] status = CANCELLED -> 4

\* The statuses of the entries of a history.
StatusesOf(h) == [k \in 1..Len(h) |-> h[k].status]

\* C26: with the operations on an order run one at a time, at most 4
\* updateOrderStatus calls ever succeed on it (every allowed transition moves
\* the order to a later stage, and there are 4 stages after REQUESTED), no
\* status appears twice in its statusHistory, which so never exceeds 5
\* entries, and an order with status DELIVERED has exactly the history
\* REQUESTED, PICKED_UP, IN_LAUNDRY, OUT_FOR_DELIVERY, DELIVERED.
C26_BoundedHistory ==
  /\ Idle =>
       \A s \in OrderStatus, t \in OrderStatus :
         isValidStatusTransition(s, t) => Stage(s) < Stage(t)
  /\ \A i \in 1..Len(orders) :
       LET h == orders[i].statusHistory IN
       /\ Len(h) - 1 <= Stage(orders[i].status)
       /\ Len(h) - 1 <= 4
       /\ \A j \in 1..Len(h), k \in 1..Len(h) :
            h[j].status = h[k].status => j = k
       /\ orders[i].status = DELIVERED =>
            StatusesOf(h) = <<REQUESTED, PICKED_UP, IN_LAUNDRY,
                              OUT_FOR_DELIVERY, DELIVERED>>

\* C26 witness: a fourth updateOrderStatus has succeeded on an order, which is
\* now delivered with five history entries.
C26_Witness ==
  /\ Served("updateOrderStatus")
  /\ last.result = "ok"
  /\ orders[last.orderId].status = DELIVERED
  /\ Len(orders[last.orderId].statusHistory) = 5
\* The statuses of an order that has been picked up and not cancelled.
PastRequested == {PICKED_UP, IN_LAUNDRY, OUT_FOR_DELIVERY, DELIVERED}

\* The orders some user finds in getDeliveryOrders or getDeliveryHistory.
InSomeDeliveryList ==
  UNION {getDeliveryOrders(orders, u) \cup getDeliveryHistory(orders, u) :
           u \in UserIds}

\* C27 as claimed: in every reachable state an order whose status is
\* PICKED_UP, IN_LAUNDRY, OUT_FOR_DELIVERY or DELIVERED has a deliveryPerson
\* assigned, so every order that is not CANCELLED appears in
\* getUnassignedOrders or in some delivery person's getDeliveryOrders or
\* getDeliveryHistory.
C27_Original ==
  \A i \in 1..Len(orders) :
    /\ orders[i].status \in PastRequested =>
         orders[i].deliveryPerson # Undefined
    /\ orders[i].status # CANCELLED =>
         i \in getUnassignedOrders(orders) \cup InSomeDeliveryList

\* C27, amended: an order past REQUESTED has a deliveryPerson assigned or has
\* had every status update made by an administrator; an order with a
\* deliveryPerson is in exactly one of that user's getDeliveryOrders and
\* getDeliveryHistory and in no other user's; getUnassignedOrders holds
\* exactly the REQUESTED orders without a deliveryPerson, so an order without
\* one that an administrator has moved is in none of the lists.
C27_AssignedOrAdminMoved ==
  \A i \in 1..Len(orders) :
    LET o == orders[i]
        h == o.statusHistory
    IN /\ o.status \in PastRequested /\ o.deliveryPerson = Undefined =>
            \A k \in 2..Len(h) : users[h[k].updatedBy].role = ADMIN
       /\ o.deliveryPerson # Undefined =>
            /\ i \in getDeliveryOrders(orders, o.deliveryPerson)
                 <=> i \notin getDeliveryHistory(orders, o.deliveryPerson)
            /\ i \in getDeliveryHistory(orders, o.deliveryPerson)
                 <=> o.status \in {DELIVERED, CANCELLED}
            /\ \A u \in UserIds \ {o.deliveryPerson} :
                 /\ i \notin getDeliveryOrders(orders, u)
                 /\ i \notin getDeliveryHistory(orders, u)
            /\ i \notin getUnassignedOrders(orders)
       /\ o.deliveryPerson = Undefined =>
            /\ i \notin InSomeDeliveryList
            /\ i \in getUnassignedOrders(orders) <=> o.status = REQUESTED

\* C27 witness: an administrator has just picked up an order that has no
\* delivery person; it is in none of the lists.
C27_Witness ==
  /\ Served("updateOrderStatus")
  /\ last.result = "ok"
  /\ users[last.caller].role = ADMIN
  /\ orders[last.orderId].status = PICKED_UP
  /\ orders[last.orderId].deliveryPerson = Undefined
  /\ last.orderId \notin getUnassignedOrders(orders) \cup InSomeDeliveryList
\* The caller of the request just served delivered order i earlier (wrote
\* one of its status updates while not an administrator) and has been
\* replaced: the order is now assigned to another user, and the caller is
\* neither its customer nor an administrator.
ReplacedOn(i) ==
  /\ i \in 1..Len(last.before)
  /\ last.before[i].deliveryPerson # Undefined
  /\ last.before[i].deliveryPerson # last.caller
  /\ last.before[i].customer # last.caller
  /\ users[last.caller].role = DELIVERY
  /\ \E k \in 2..Len(last.before[i].statusHistory) :
       last.before[i].statusHistory[k].updatedBy = last.caller

\* C28: at any time at most one non-administrator can successfully update an
\* order's status, its currently assigned delivery person; after
\* assignDeliveryPerson replaces delivery person A by B on an order, every
\* updateOrderStatus and getOrderById by A on the order is Forbidden, B's are
\* not, and the order counts in B's getDeliveryStats and not in A's.
C28_OnlyAssignedCourier ==
  /\ Served("updateOrderStatus") /\ last.result = "ok"
       /\ users[last.caller].role # ADMIN =>
         last.before[last.orderId].deliveryPerson = last.caller
  /\ (Served("updateOrderStatus") \/ Served("getOrderById"))
       /\ ReplacedOn(last.orderId) =>
         last.result = "Forbidden"
  /\ (Served("updateOrderStatus") \/ Served("getOrderById"))
       /\ last.orderId \in 1..Len(last.before)
       /\ last.before[last.orderId].deliveryPerson = last.caller
       /\ users[last.caller].role = DELIVERY =>
         last.result # "Forbidden"
  /\ Served("getDeliveryStats") /\ last.result = "ok" =>
       last.body[1].totalDeliveries = Cardinality(OrdersOf(last.caller))

\* What holds of a replaced delivery person whatever the order of the checks:
\* their updateOrderStatus never succeeds, and is answered Forbidden whenever
\* the transition asked for is one the table allows; their getOrderById is
\* Forbidden.
ReplacedCourierShutOut ==
  /\ Served("updateOrderStatus") /\ ReplacedOn(last.orderId) =>
       /\ last.result \in {"Forbidden", "BadRequest"}
       /\ last.result = "BadRequest" <=>
            last.dto.status
              \notin TransitionTable[last.before[last.orderId].status]
       /\ orders = last.before
  /\ Served("getOrderById") /\ ReplacedOn(last.orderId) =>
       last.result = "Forbidden"
\* An updateOrderStatus p and an assignDeliveryPerson q on one order that are
\* both done and had each read the order before the other wrote.
Interleaved(p, q) ==
  /\ pending[p].op = "updateOrderStatus"
  /\ pending[q].op = "assignDeliveryPerson"
  /\ pending[p].phase = "done" /\ pending[q].phase = "done"
  /\ pending[p].read # None /\ pending[q].read # None
  /\ pending[p].orderId = pending[q].orderId
  /\ pending[p].read = pending[q].read

\* C29: when an assignDeliveryPerson and an updateOrderStatus on one order
\* interleave, each reading the order before the other writes, neither write
\* is lost: after both are done deliveryPerson is the newly assigned user,
\* status is the updated status, and the statusHistory is the one read plus
\* one entry, which carries that status.
C29_NoLostWrite ==
  \A p, q \in Slots :
    Interleaved(p, q) =>
      LET o == orders[pending[p].orderId]
          read == pending[p].read[1]
      IN /\ pending[p].result = "ok"
         /\ pending[q].result = "ok"
         /\ o.deliveryPerson = pending[q].dto.deliveryPersonId
         /\ o.status = pending[p].dto.status
         /\ Len(o.statusHistory) = Len(read.statusHistory) + 1
         /\ SubSeq(o.statusHistory, 1, Len(read.statusHistory))
              = read.statusHistory
         /\ o.statusHistory[Len(o.statusHistory)].status = pending[p].dto.status
         /\ o.statusHistory[Len(o.statusHistory)].updatedBy = pending[p].caller

\* C29 witness: the administrator's pick-up and the assignment of the
\* delivery user both read a requested order without a delivery person; the
\* order is now picked up and assigned.
C29_Witness ==
  \E p, q \in Slots :
    /\ Interleaved(p, q)
    /\ pending[p].read[1].status = REQUESTED
    /\ pending[p].read[1].deliveryPerson = Undefined
    /\ orders[pending[p].orderId].status = PICKED_UP
    /\ orders[pending[p].orderId].deliveryPerson = "u2"

\* C30: no sequence of requestOtp, verifyOtp and completeSignup calls gives
\* a user the admin role, so where no administrator is registered the
\* administrator-only operations stay out of reach: no assignDeliveryPerson
\* and no order statistics are served, and the only status update served on
\* an unassigned order is the customer's own cancellation.
C30_NoSelfMadeAdmin ==
  /\ \A u \in DOMAIN users : users[u].role # ADMIN
  /\ (Served("assignDeliveryPerson") \/ Served("getOrderStats")) =>
       last.result # "ok"
  /\ ( /\ Served("updateOrderStatus")
       /\ last.result = "ok"
       /\ last.before[last.orderId].deliveryPerson = Undefined ) =>
       ( /\ last.dto.status = CANCELLED
         /\ last.caller = last.before[last.orderId].customer )
====
